---- MODULE Spec2Model ----
(***************************************************************************)
(* Connect-N: the Board (src/board.py), the heuristic, minimax and MCTS    *)
(* agents (src/agents/*.py), the random agent (src/random_agent.py), the   *)
(* GameController (src/game_controller.py) and the MatchRunner             *)
(* (src/match_runner.py).                                                  *)
(*                                                                         *)
(* A Board object is a record [rows, cols, connect, grid, moves]; grid is  *)
(* indexed as in the source, grid[r][c] with row 0 the TOP row and row     *)
(* rows-1 the bottom row, cells 0 (empty), 1, 2.                           *)
(***************************************************************************)
EXTENDS Integers, Sequences, FiniteSets, TLC

VARIABLES
    board,      \* the authoritative Board object (the caller's board)
    last,       \* outcome of the last call: [op, err]
    ret,        \* value returned by the last query (winner, select_move): [val]
    call,       \* the select_move call made on the board: agent, arguments,
                \* the board as it was at entry
    search      \* the locals of a running MCTS select_move: root_state,
                \* the tree under root, the iterations done; for a
                \* GameController or a MatchRunner, its fields besides the
                \* board

vars == <<board, last, ret, call, search>>

\* no query has returned yet
NoRet == [val |-> -1]

\* no select_move call has been made
NoCall ==
    [agent |-> "none", player |-> 0, profile |-> "none", depth |-> 0,
     rollout_max_len |-> 0, entry |-> <<>>]

\* no MCTS search is running
NoSearch == [heap |-> <<>>, root_state |-> 0, tree |-> <<>>, iters |-> 0]

----------------------------------------------------------------------------
(* Program constants of src/board.py *)

MIN_RC == 3

MinConnect == 3

(* Bounds of the model *)

\* rows + cols of a constructed board is at most MaxDimSum
MaxDimSum == 6

\* the same for the boards winner() is examined on, which hold at most
\* MaxTokens tokens
WinDimSum == 7

MaxTokens == 7

----------------------------------------------------------------------------
(* Python helpers *)

\* range(a, b) as a sequence: a, a+1, ..., b-1 (empty when b <= a)
Range(a, b) == [i \in 1..(IF b > a THEN b - a ELSE 0) |-> a + i - 1]

Max2(a, b) == IF a >= b THEN a ELSE b

----------------------------------------------------------------------------
(* Board.__init__ *)

EmptyGrid(rows, cols) == [r \in 0..(rows - 1) |-> [c \in 0..(cols - 1) |-> 0]]

\* the guards of the constructor: every ValueError it raises
ValidConfig(rows, cols, connect) ==
    /\ rows >= MIN_RC
    /\ cols >= MIN_RC
    /\ connect >= MinConnect
    /\ Max2(rows, cols) >= connect

NewBoard(rows, cols, connect) ==
    [rows |-> rows, cols |-> cols, connect |-> connect,
     grid |-> EmptyGrid(rows, cols), moves |-> 0]

(* Board.reset *)
reset(b) == [b EXCEPT !.grid = EmptyGrid(b.rows, b.cols), !.moves = 0]

\* mutant: the mask is read from the bottom row
valid_moves_bottom(b) ==
    [c \in 0..(b.cols - 1) |-> b.grid[b.rows - 1][c] = 0]

(* Board.valid_moves: the mask, one boolean per column, from the TOP cell *)
valid_moves(b) == [c \in 0..(b.cols - 1) |-> b.grid[0][c] = 0]

(* Board.is_full *)
is_full(b) == b.moves >= b.rows * b.cols

\* mutant: the scan runs from the top row downwards
DropScanFromTop(b, col, player, r) ==
    LET free == {x \in 0..(b.rows - 1) : b.grid[x][col] = 0}
        top == CHOOSE x \in free : \A y \in free : x <= y
    IN  IF free = {}
        THEN [err |-> "RuntimeError", board |-> b]
        ELSE [err |-> "none",
              board |-> [b EXCEPT !.grid[top][col] = player,
                                  !.moves = b.moves + 1]]

\* mutant: the token is placed but moves is not counted
DropScanNoCount(b, col, player, r) ==
    LET res == DropScanFromTop(b, col, player, r)
        low == CHOOSE x \in 0..(b.rows - 1) :
                  /\ b.grid[x][col] = 0
                  /\ \A y \in 0..(b.rows - 1) : b.grid[y][col] = 0 => y <= x
    IN  IF res.err # "none"
        THEN res
        ELSE [err |-> "none", board |-> [b EXCEPT !.grid[low][col] = player]]

(* Board.drop: the loop `for r in range(rows - 1, -1, -1)`, from row r down
   to row 0; the first empty cell takes the token.  Falling off the loop is
   the RuntimeError of line 90. *)
RECURSIVE DropScan(_, _, _, _)
DropScan(b, col, player, r) ==
    IF r < 0
    THEN [err |-> "RuntimeError", board |-> b]
    ELSE IF b.grid[r][col] = 0
         THEN [err |-> "none",
               board |-> [b EXCEPT !.grid[r][col] = player,
                                   !.moves = b.moves + 1]]
         ELSE DropScan(b, col, player, r - 1)

\* mutant: the column range is checked before the player
dropRangeFirst(b, col, player) ==
    IF ~(0 <= col /\ col < b.cols)
    THEN [err |-> "ColumnRange", board |-> b]
    ELSE IF player \notin {1, 2}
         THEN [err |-> "InvalidPlayer", board |-> b]
         ELSE IF b.grid[0][col] # 0
              THEN [err |-> "ColumnFull", board |-> b]
              ELSE DropScan(b, col, player, b.rows - 1)

\* the three guards of drop, in the order of the source, then the scan
drop(b, col, player) ==
    IF player \notin {1, 2}
    THEN [err |-> "InvalidPlayer", board |-> b]
    ELSE IF ~(0 <= col /\ col < b.cols)
         THEN [err |-> "ColumnRange", board |-> b]
         ELSE IF b.grid[0][col] # 0
              THEN [err |-> "ColumnFull", board |-> b]
              ELSE DropScan(b, col, player, b.rows - 1)

----------------------------------------------------------------------------
(* Board.winner *)

\* the pairs <<o, i>> of `for o in outer: for i in inner`, in loop order
Nest(outer, inner) ==
    [n \in 1..(Len(outer) * Len(inner)) |->
        <<outer[((n - 1) \div Len(inner)) + 1],
          inner[((n - 1) % Len(inner)) + 1]>>]

\* mutant: the left-right scan runs before the up-down scan
ScanLinesHorizontalFirst(rows, cols, k) ==
    LET vert  == Nest(Range(0, cols), Range(0, rows - (k - 1)))
        horiz == Nest(Range(0, rows), Range(0, cols - (k - 1)))
        down  == Nest(Range(0, rows - (k - 1)), Range(0, cols - (k - 1)))
        up    == Nest(Range(k - 1, rows), Range(0, cols - (k - 1)))
    IN  [n \in 1..Len(horiz) |-> <<horiz[n][1], horiz[n][2], 0, 1>>] \o
        [n \in 1..Len(vert)  |-> <<vert[n][2], vert[n][1], 1, 0>>] \o
        [n \in 1..Len(down)  |-> <<down[n][1], down[n][2], 1, 1>>] \o
        [n \in 1..Len(up)    |-> <<up[n][1], up[n][2], -1, 1>>]

\* mutant: every scan stops one start cell early (range(n - k))
ScanLinesShort(rows, cols, k) ==
    LET vert  == Nest(Range(0, cols), Range(0, rows - k))
        horiz == Nest(Range(0, rows), Range(0, cols - k))
        down  == Nest(Range(0, rows - k), Range(0, cols - k))
        up    == Nest(Range(k, rows), Range(0, cols - k))
    IN  [n \in 1..Len(vert)  |-> <<vert[n][2], vert[n][1], 1, 0>>] \o
        [n \in 1..Len(horiz) |-> <<horiz[n][1], horiz[n][2], 0, 1>>] \o
        [n \in 1..Len(down)  |-> <<down[n][1], down[n][2], 1, 1>>] \o
        [n \in 1..Len(up)    |-> <<up[n][1], up[n][2], -1, 1>>]

\* the four scans of winner, in the order of the source; each entry is
\* <<r, c, dr, dc>>: the start cell and the step of a window of k cells
ScanLines(rows, cols, k) ==
    LET vert  == Nest(Range(0, cols), Range(0, rows - (k - 1)))
        horiz == Nest(Range(0, rows), Range(0, cols - (k - 1)))
        down  == Nest(Range(0, rows - (k - 1)), Range(0, cols - (k - 1)))
        up    == Nest(Range(k - 1, rows), Range(0, cols - (k - 1)))
    IN  [n \in 1..Len(vert)  |-> <<vert[n][2], vert[n][1], 1, 0>>] \o
        [n \in 1..Len(horiz) |-> <<horiz[n][1], horiz[n][2], 0, 1>>] \o
        [n \in 1..Len(down)  |-> <<down[n][1], down[n][2], 1, 1>>] \o
        [n \in 1..Len(up)    |-> <<up[n][1], up[n][2], -1, 1>>]

\* `p and all(grid[..] == p for i in range(k))` at entry n, else go on
RECURSIVE FirstRun(_, _, _, _)
FirstRun(grid, k, lines, n) ==
    IF n > Len(lines)
    THEN 0
    ELSE LET l == lines[n]
             p == grid[l[1]][l[2]]
         IN  IF /\ p # 0
                /\ \A i \in 0..(k - 1) : grid[l[1] + i * l[3]][l[2] + i * l[4]] = p
             THEN p
             ELSE FirstRun(grid, k, lines, n + 1)

winner(b) == FirstRun(b.grid, b.connect, ScanLines(b.rows, b.cols, b.connect), 1)

----------------------------------------------------------------------------
(* The Board as a state machine: construction, drop with any arguments,
   reset. *)

Dims == MIN_RC..(MaxDimSum - MIN_RC)

\* arguments of drop, legal and illegal
ColArgs(b) == (-1)..(b.cols)

PlayerArgs == 0..3

\* connect plays no part in drop, reset and valid_moves: the Board machine
\* is built with the smallest run length
InitBoard ==
    /\ \E rows \in Dims, cols \in Dims :
            /\ rows + cols <= MaxDimSum
            /\ ValidConfig(rows, cols, MinConnect)
            /\ board = NewBoard(rows, cols, MinConnect)
    /\ last = [op |-> "init", err |-> "none"]
    /\ ret = NoRet
    /\ call = NoCall
    /\ search = NoSearch

Drop(col, player) ==
    LET res == drop(board, col, player)
    IN  /\ board' = res.board
        /\ last' = [op |-> "drop", err |-> res.err]
        /\ ret' = NoRet
        /\ UNCHANGED <<call, search>>

Reset ==
    /\ board' = reset(board)
    /\ last' = [op |-> "reset", err |-> "none"]
    /\ ret' = NoRet
    /\ UNCHANGED <<call, search>>

NextBoard ==
    \/ \E col \in ColArgs(board), player \in PlayerArgs : Drop(col, player)
    \/ Reset

Spec == InitBoard /\ [][NextBoard]_vars

----------------------------------------------------------------------------
(* winner() examined on the boards that drops build: any dimensions with
   rows + cols <= WinDimSum, any run length the constructor accepts (also
   one longer than a side), tokens of either player in any order. *)

WinDims == MIN_RC..(WinDimSum - MIN_RC)

InitWinner ==
    /\ \E rows \in WinDims, cols \in WinDims :
         \E connect \in MinConnect..Max2(rows, cols) :
            /\ rows + cols <= WinDimSum
            /\ ValidConfig(rows, cols, connect)
            /\ board = NewBoard(rows, cols, connect)
    /\ last = [op |-> "init", err |-> "none"]
    /\ ret = NoRet
    /\ call = NoCall
    /\ search = NoSearch

\* a drop that succeeds, while the board holds fewer than MaxTokens tokens
PlaceToken(col, player) ==
    /\ board.moves < MaxTokens
    /\ drop(board, col, player).err = "none"
    /\ Drop(col, player)

\* a call of winner(): the board is left alone, the result is returned
Winner ==
    /\ last.op # "winner"
    /\ ret' = [val |-> winner(board)]
    /\ last' = [op |-> "winner", err |-> "none"]
    /\ UNCHANGED <<board, call, search>>

NextWinner ==
    \/ \E col \in 0..(board.cols - 1), player \in {1, 2} : PlaceToken(col, player)
    \/ Winner

SpecWinner == InitWinner /\ [][NextWinner]_vars

----------------------------------------------------------------------------
(* Vocabulary of the Board claims *)

Cells(b) == (0..(b.rows - 1)) \X (0..(b.cols - 1))

\* number of tokens in column c
ColumnCount(b, c) == Cardinality({r \in 0..(b.rows - 1) : b.grid[r][c] # 0})

\* number of columns valid_moves reports legal
LegalCount(b) == Cardinality({c \in 0..(b.cols - 1) : valid_moves(b)[c]})

\* the lowest empty cell of column c: the empty cell of greatest row index
LowestEmptyRow(b, c) ==
    CHOOSE r \in 0..(b.rows - 1) :
        /\ b.grid[r][c] = 0
        /\ \A q \in 0..(b.rows - 1) : b.grid[q][c] = 0 => q <= r

(* C1: in every reachable Board state each column is gravity-consistent (no
   token lies above an empty cell of its column), a column's top cell is
   empty iff the column holds fewer than rows tokens, and moves equals the
   number of non-empty cells. *)
C1_BoardInvariant ==
    /\ \A c \in 0..(board.cols - 1) :
         /\ \A r \in 0..(board.rows - 1), q \in 0..(board.rows - 1) :
              (board.grid[r][c] # 0 /\ q > r) => board.grid[q][c] # 0
         /\ (board.grid[0][c] = 0) <=> (ColumnCount(board, c) < board.rows)
    /\ board.moves =
         Cardinality({rc \in Cells(board) : board.grid[rc[1]][rc[2]] # 0})

\* a full column beside a partly filled one, just after a refused drop
C1_Witness ==
    /\ last = [op |-> "drop", err |-> "ColumnFull"]
    /\ \E c \in 0..(board.cols - 1), d \in 0..(board.cols - 1) :
         /\ ColumnCount(board, c) = board.rows
         /\ ColumnCount(board, d) \in 1..(board.rows - 1)

(* C2: a successful drop(col, player) writes player into exactly one cell,
   the lowest empty cell of column col, adds exactly 1 to moves and leaves
   every other cell and rows, cols, connect unchanged.  Stated of every
   reachable board and every argument pair: the board that drop leaves. *)
C2_DropFrame ==
    \A col \in ColArgs(board), player \in PlayerArgs :
        LET res == drop(board, col, player)
            after == res.board
            r == LowestEmptyRow(board, col)
        IN  res.err = "none" =>
            /\ col \in 0..(board.cols - 1)
            /\ board.grid[r][col] = 0
            /\ after.grid[r][col] = player
            /\ \A rc \in Cells(board) :
                 rc # <<r, col>> =>
                    after.grid[rc[1]][rc[2]] = board.grid[rc[1]][rc[2]]
            /\ after.moves = board.moves + 1
            /\ after.rows = board.rows
            /\ after.cols = board.cols
            /\ after.connect = board.connect
            /\ DOMAIN after.grid = DOMAIN board.grid
            /\ \A q \in DOMAIN after.grid :
                 DOMAIN after.grid[q] = DOMAIN board.grid[q]

\* a successful drop has landed on top of another token
C2_Witness ==
    /\ last = [op |-> "drop", err |-> "none"]
    /\ \E c \in 0..(board.cols - 1) :
         /\ ColumnCount(board, c) = 2
         /\ board.grid[board.rows - 1][c] = 1
         /\ board.grid[board.rows - 2][c] = 2

(* C3: drop(col, player) fails exactly when player is not 1 or 2 (invalid
   player), or col is outside [0, cols) (column range), or column col is
   full (column full), checked in that order; a drop into a full column
   always fails, and a failing drop leaves grid and moves unchanged. *)
ExpectedDropError(b, col, player) ==
    IF player # 1 /\ player # 2 THEN "InvalidPlayer"
    ELSE IF col < 0 \/ col >= b.cols THEN "ColumnRange"
    ELSE IF ColumnCount(b, col) = b.rows THEN "ColumnFull"
    ELSE "none"

C3_DropErrors ==
    /\ \A col \in ColArgs(board), player \in PlayerArgs :
         LET res == drop(board, col, player)
         IN  /\ res.err = ExpectedDropError(board, col, player)
             /\ res.err # "none" => res.board = board
    /\ last.op = "drop" /\ last.err = "ColumnFull" =>
         \E c \in 0..(board.cols - 1) : ColumnCount(board, c) = board.rows

\* a drop into a full column has just been refused, other columns not full
C3_Witness ==
    /\ last = [op |-> "drop", err |-> "ColumnFull"]
    /\ \E c \in 0..(board.cols - 1) : ColumnCount(board, c) = board.rows
    /\ \E c \in 0..(board.cols - 1) : ColumnCount(board, c) = 0

(* C4 as stated: after any successful drop the number of columns that
   valid_moves reports legal is exactly one less than before. *)
C4_Original ==
    \A col \in ColArgs(board), player \in PlayerArgs :
        LET res == drop(board, col, player)
        IN  res.err = "none" =>
               LegalCount(res.board) = LegalCount(board) - 1

(* C4 amended: after a successful drop into column col the number of legal
   columns is one less than before exactly when the drop filled the last
   empty cell of col, and is unchanged otherwise; it never increases. *)
C4_LegalCount ==
    \A col \in ColArgs(board), player \in PlayerArgs :
        LET res == drop(board, col, player)
        IN  res.err = "none" =>
            /\ LegalCount(res.board) =
                 LegalCount(board) -
                    (IF ColumnCount(board, col) = board.rows - 1 THEN 1 ELSE 0)
            /\ LegalCount(res.board) <= LegalCount(board)

\* a successful drop has just filled a column while another stays open
C4_Witness ==
    /\ last = [op |-> "drop", err |-> "none"]
    /\ LegalCount(board) = board.cols - 1
    /\ \E c \in 0..(board.cols - 1) : ColumnCount(board, c) \in 1..(board.rows - 1)

----------------------------------------------------------------------------
(* Vocabulary of the winner claims: runs, stated cell by cell *)

other(p) == IF p = 1 THEN 2 ELSE 1

\* k cells from <<r, c>> in steps of <<dr, dc>>, all on the board, all p
RunAt(b, p, r, c, dr, dc) ==
    /\ r + (b.connect - 1) * dr \in 0..(b.rows - 1)
    /\ c + (b.connect - 1) * dc \in 0..(b.cols - 1)
    /\ \A i \in 0..(b.connect - 1) : b.grid[r + i * dr][c + i * dc] = p

HasRunAlong(b, p, dr, dc) ==
    \E r \in 0..(b.rows - 1), c \in 0..(b.cols - 1) :
        b.grid[r][c] = p /\ RunAt(b, p, r, c, dr, dc)

VerticalRun(b, p) == HasRunAlong(b, p, 1, 0)

HorizontalRun(b, p) == HasRunAlong(b, p, 0, 1)

DiagonalRun(b, p) == HasRunAlong(b, p, 1, 1) \/ HasRunAlong(b, p, -1, 1)

Steps == {<<1, 0>>, <<0, 1>>, <<1, 1>>, <<-1, 1>>}

\* p has a run along some line: vertical, horizontal or either diagonal
HasRun(b, p) ==
    \E r \in 0..(b.rows - 1), c \in 0..(b.cols - 1) :
        /\ b.grid[r][c] = p
        /\ \E d \in Steps : RunAt(b, p, r, c, d[1], d[2])

\* place of a run in the scan: family first (up-down, left-right, down-right,
\* up-right), then the outer loop index, then the inner one
RunKey(r, c, dr, dc) ==
    IF dr = 1 /\ dc = 0 THEN <<0, c, r>>
    ELSE IF dr = 0 THEN <<1, r, c>>
    ELSE IF dr = 1 THEN <<2, r, c>>
    ELSE <<3, r, c>>

KeyLess(x, y) ==
    \/ x[1] < y[1]
    \/ x[1] = y[1] /\ x[2] < y[2]
    \/ x[1] = y[1] /\ x[2] = y[2] /\ x[3] < y[3]

\* every run on the board: <<player, key>>
Runs(b) ==
    {<<x[1], RunKey(x[2][1], x[2][2], x[3][1], x[3][2])>> :
        x \in {y \in {1, 2} \X Cells(b) \X Steps :
                 /\ b.grid[y[2][1]][y[2][2]] = y[1]
                 /\ RunAt(b, y[1], y[2][1], y[2][2], y[3][1], y[3][2])}}

(* C5: winner() returns 0 iff no player has connect consecutive tokens along
   a vertical, horizontal or either diagonal line, and when exactly one
   player has such a run it returns that player (also when connect exceeds
   rows or cols). *)
C5_WinnerCorrect ==
    last.op = "winner" =>
        LET has == [p \in {1, 2} |-> HasRun(board, p)]
        IN  /\ (ret.val = 0) <=> (~has[1] /\ ~has[2])
            /\ \A p \in {1, 2} : (has[p] /\ ~has[other(p)]) => ret.val = p

\* winner() has returned the owner of the only run, a horizontal one on a
\* board with fewer rows than the run length
C5_Witness ==
    /\ last.op = "winner"
    /\ board.connect > board.rows
    /\ ret.val = 2
    /\ HorizontalRun(board, 2)
    /\ ~HasRun(board, 1)

(* C6: when both players have a run, winner() returns the owner of the
   first run in scan order: any vertical run takes precedence over any
   horizontal run, and any horizontal run over any diagonal run. *)
C6_ScanOrder ==
    (last.op = "winner" /\ HasRun(board, 1) /\ HasRun(board, 2)) =>
        /\ (\E p \in {1, 2} : VerticalRun(board, p)) =>
              VerticalRun(board, ret.val)
        /\ ((\A p \in {1, 2} : ~VerticalRun(board, p)) /\
            (\E p \in {1, 2} : HorizontalRun(board, p))) =>
              HorizontalRun(board, ret.val)
        /\ \E x \in Runs(board) :
              /\ x[1] = ret.val
              /\ \A y \in Runs(board) : y[2] = x[2] \/ KeyLess(x[2], y[2])

\* a vertical run of one player beside a horizontal run of the other: the
\* vertical one wins
C6_Witness ==
    /\ last.op = "winner"
    /\ \E p \in {1, 2} :
         /\ ret.val = p
         /\ VerticalRun(board, p) /\ ~HorizontalRun(board, p)
         /\ HorizontalRun(board, other(p)) /\ ~VerticalRun(board, other(p))

\* C6, second case: a horizontal run of one player and a diagonal run of
\* the other, no vertical run: the horizontal one wins
C6_WitnessDiagonal ==
    /\ last.op = "winner"
    /\ \A p \in {1, 2} : ~VerticalRun(board, p)
    /\ \E p \in {1, 2} :
         /\ ret.val = p
         /\ HorizontalRun(board, p) /\ ~DiagonalRun(board, p)
         /\ DiagonalRun(board, other(p)) /\ ~HorizontalRun(board, other(p))

----------------------------------------------------------------------------
(* The agents.  Python helpers they use *)

\* [x for x in seq if x in keep], order kept
Filter(seq, keep) == SelectSeq(seq, LAMBDA x : x \in keep)

\* [c for c, ok in enumerate(b.valid_moves()) if ok]
LegalCols(b) == Filter(Range(0, b.cols), {c \in 0..(b.cols - 1) : valid_moves(b)[c]})

Abs(x) == IF x < 0 THEN -x ELSE x

\* sorted(seq, key = ...) and list.sort(key = ...): stable, ascending; key is
\* the function from the elements to their keys
RECURSIVE Sorted(_, _)
Sorted(seq, key) ==
    IF seq = <<>>
    THEN <<>>
    ELSE LET front == Sorted(SubSeq(seq, 1, Len(seq) - 1), key)
             x == seq[Len(seq)]
             n == Cardinality({i \in 1..Len(front) : key[front[i]] <= key[x]})
         IN  SubSeq(front, 1, n) \o <<x>> \o SubSeq(front, n + 1, Len(front))

RECURSIVE SumSeq(_, _)
SumSeq(s, n) == IF n = 0 THEN 0 ELSE s[n] + SumSeq(s, n - 1)

\* sum(s)
Sum(s) == SumSeq(s, Len(s))

\* the windows <<r, c, dr, dc>> that start at the cells `starts` (pairs
\* <<r, c>>) and step by (dr, dc)
Lines(starts, dr, dc) ==
    [n \in 1..Len(starts) |-> <<starts[n][1], starts[n][2], dr, dc>>]

\* the pairs of `for c in cs: for r in rs`, as cells <<r, c>>
ColumnMajor(cs, rs) ==
    [n \in 1..(Len(cs) * Len(rs)) |->
        <<rs[((n - 1) % Len(rs)) + 1], cs[((n - 1) \div Len(rs)) + 1]>>]

----------------------------------------------------------------------------
(* src/agents/heuristic_agent.py

   Boards are objects: a call that is handed a Board may write to it.  Each
   operator that is handed a board and calls into code that drops tokens
   returns, beside its value (val), the board it was handed as the call
   leaves it (arg). *)

opp(pid) == IF pid = 1 THEN 2 ELSE 1

\* nb.drop(col, pid) on the new board nb; b is the argument of
\* _clone_and_drop, a different object, left as it was
DropOnCopy(b, res) == [board |-> res.board, err |-> res.err, arg |-> b]

\* nb is a new Board whose grid is a new list of new rows (row[:]): the drop
\* writes nb's cells and nb.moves only
clone_and_drop(b, col, pid) ==
    DropOnCopy(b, drop([NewBoard(b.rows, b.cols, b.connect) EXCEPT
                           !.grid = [r \in 0..(b.rows - 1) |->
                                       [c \in 0..(b.cols - 1) |-> b.grid[r][c]]],
                           !.moves = b.moves],
                       col, pid))

\* `if nb.winner() == pid: wins.append(c)` for the copy cd
WinsWith(wins, cd, c, pid) ==
    IF winner(cd.board) = pid THEN Append(wins, c) ELSE wins

\* _immediate_wins: the loop over enumerate(b.valid_moves()) from column c
\* on (ImmediateWinsLoop), and its step after the copy cd is made; the mask
\* is computed once, before the loop
RECURSIVE ImmediateWinsLoop(_, _, _, _, _)
ImmediateWinsStep(cd, mask, pid, c, wins) ==
    ImmediateWinsLoop(cd.arg, mask, pid, c + 1, WinsWith(wins, cd, c, pid))

ImmediateWinsLoop(b, mask, pid, c, wins) ==
    IF c >= b.cols
    THEN [val |-> wins, arg |-> b]
    ELSE IF ~mask[c]
         THEN ImmediateWinsLoop(b, mask, pid, c + 1, wins)
         ELSE ImmediateWinsStep(clone_and_drop(b, c, pid), mask, pid, c, wins)

immediate_wins(b, pid) == ImmediateWinsLoop(b, valid_moves(b), pid, 0, <<>>)

\* len(set(wins)) >= 2
TwoDistinct(wins) == Cardinality({wins[i] : i \in DOMAIN wins}) >= 2

\* wins_next = _immediate_wins(nb, pid) on the copy cd
DoubleThreatOn(cd, pid) ==
    [val |-> TwoDistinct(immediate_wins(cd.board, pid).val), arg |-> cd.arg]

creates_double_threat(b, col, pid) ==
    DoubleThreatOn(clone_and_drop(b, col, pid), pid)

\* [c for c in cands if _creates_double_threat(b, c, pid)], from index i on,
\* and its step after the call dt
RECURSIVE DoubleThreatLoop(_, _, _, _, _)
DoubleThreatStep(dt, cands, pid, i, found) ==
    DoubleThreatLoop(dt.arg, cands, pid, i + 1,
                     IF dt.val THEN Append(found, cands[i]) ELSE found)

DoubleThreatLoop(b, cands, pid, i, found) ==
    IF i > Len(cands)
    THEN [val |-> found, arg |-> b]
    ELSE DoubleThreatStep(creates_double_threat(b, cands[i], pid), cands, pid,
                          i, found)

opponent_has_double_threat(b, pid) ==
    DoubleThreatLoop(b, LegalCols(b), opp(pid), 1, <<>>)

\* the k cells of the window that starts at (r, c) and steps by (dr, dc)
Window(b, l) == [i \in 1..b.connect |-> b.grid[l[1] + (i - 1) * l[3]][l[2] + (i - 1) * l[4]]]

Count(window, x) == Cardinality({i \in DOMAIN window : window[i] = x})

\* the windows of the four loops of _count_potentials, in loop order
PotentialWindows(rows, cols, k) ==
    Lines(ColumnMajor(Range(0, cols), Range(0, rows - (k - 1))), 1, 0) \o
    Lines(Nest(Range(0, rows), Range(0, cols - (k - 1))), 0, 1) \o
    Lines(Nest(Range(0, rows - (k - 1)), Range(0, cols - (k - 1))), 1, 1) \o
    Lines(Nest(Range(k - 1, rows), Range(0, cols - (k - 1))), -1, 1)

\* `if opp in window: continue`, else my_tokens ** 2
WindowScore(window, pid) ==
    IF Count(window, opp(pid)) > 0
    THEN 0
    ELSE Count(window, pid) * Count(window, pid)

WindowScores(b, pid, ws) ==
    [n \in 1..Len(ws) |-> WindowScore(Window(b, ws[n]), pid)]

count_potentials(b, pid) ==
    Sum(WindowScores(b, pid, PotentialWindows(b.rows, b.cols, b.connect)))

is_playable(b, r, c) ==
    b.grid[r][c] = 0 /\ (r = b.rows - 1 \/ b.grid[r + 1][c] # 0)

bonus_my_fork == 80000

penal_opp_fork == 100000

\* one window of _detect_fork_patterns, l = <<r, c, dr, dc>>.  The
\* comparisons are those of Python lists: window (k cells) against the
\* three-element list [0, x * (k - 2), 0].  In the down-right loop the
\* opponent's test is an elif
ForkMatch(b, pid, l, window) ==
    (IF /\ window = <<0, pid * (b.connect - 2), 0>>
        /\ is_playable(b, l[1], l[2])
        /\ is_playable(b, l[1] + (b.connect - 1) * l[3],
                          l[2] + (b.connect - 1) * l[4])
     THEN bonus_my_fork
     ELSE 0)
    - (IF /\ window = <<0, opp(pid) * (b.connect - 2), 0>>
          /\ ~(l[3] = 1 /\ window = <<0, pid * (b.connect - 2), 0>>)
          /\ is_playable(b, l[1], l[2])
          /\ is_playable(b, l[1] + (b.connect - 1) * l[3],
                            l[2] + (b.connect - 1) * l[4])
       THEN penal_opp_fork
       ELSE 0)

ForkTerm(b, pid, l) == ForkMatch(b, pid, l, Window(b, l))

\* the windows of the three loops of _detect_fork_patterns: rows,
\* down-right, up-right
ForkWindows(rows, cols, k) ==
    Lines(Nest(Range(0, rows), Range(0, cols - (k - 1))), 0, 1) \o
    Lines(Nest(Range(0, rows - (k - 1)), Range(0, cols - (k - 1))), 1, 1) \o
    Lines(Nest(Range(k - 1, rows), Range(0, cols - (k - 1))), -1, 1)

ForkTerms(b, pid, ws) == [n \in 1..Len(ws) |-> ForkTerm(b, pid, ws[n])]

detect_fork_patterns(b, pid) ==
    Sum(ForkTerms(b, pid, ForkWindows(b.rows, b.cols, b.connect)))

\* mutant: the midpoint is the whole number cols // 2
center_bonus_whole_mid(b, col) == -Abs(col - (b.cols \div 2))

\* -int(abs(col - (cols - 1) / 2.0)): int() truncates the half
center_bonus(b, col) == -(Abs(2 * col - (b.cols - 1)) \div 2)

\* the weights of OffensiveAgent and DefensiveAgent
Profiles ==
    [offensive |-> [w_win |-> 1000000, w_block |-> 200000, w_pot |-> 200,
                    w_center |-> 20, w_my_fork |-> 450000, w_opp_fork |-> 500000],
     defensive |-> [w_win |-> 1000000, w_block |-> 200000, w_pot |-> 200,
                    w_center |-> 20, w_my_fork |-> 350000, w_opp_fork |-> 600000]]

\* _HeuristicBase._score_position with the weights w
score_position(w, b, last_col, player) ==
    w.w_pot * count_potentials(b, player)
    + w.w_center * center_bonus(b, last_col)
    + detect_fork_patterns(b, player)
    + (IF winner(b) = player THEN w.w_win ELSE 0)
    - (IF immediate_wins(b, opp(player)).val # <<>> THEN w.w_block ELSE 0)
    + (IF TwoDistinct(immediate_wins(b, player).val) THEN w.w_my_fork ELSE 0)
    - (IF TwoDistinct(immediate_wins(b, opp(player)).val)
       THEN w.w_opp_fork
       ELSE 0)

\* mutant: `>=`, the last of the equal scores is kept
BetterOrEqual(best, c, score) ==
    IF ~best.any \/ score >= best.score
    THEN [col |-> c, score |-> score, any |-> TRUE]
    ELSE best

\* `if score > best_score: best_score, best_col = score, c`.  best.col = -1
\* is None, best.any = FALSE is best_score = -inf
Better(best, c, score) ==
    IF ~best.any \/ score > best.score
    THEN [col |-> c, score |-> score, any |-> TRUE]
    ELSE best

NoBest == [col |-> -1, score |-> 0, any |-> FALSE]

\* the loop `for c in cands: next_board = _clone_and_drop(board, c, player);
\* score = self._score_position(next_board, c, player); ...` from index i
\* on (BestByScore), and its step after the copy cd is made
RECURSIVE BestByScore(_, _, _, _, _, _)
\* mutant: every candidate is scored with the first one as last_col
BestByScoreStepFirstCol(w, cd, cands, player, i, best) ==
    BestByScore(w, cd.arg, cands, player, i + 1,
                Better(best, cands[i],
                       score_position(w, cd.board, cands[1], player)))

BestByScoreStep(w, cd, cands, player, i, best) ==
    BestByScore(w, cd.arg, cands, player, i + 1,
                Better(best, cands[i],
                       score_position(w, cd.board, cands[i], player)))

BestByScore(w, b, cands, player, i, best) ==
    IF i > Len(cands)
    THEN [val |-> best.col, arg |-> b]
    ELSE BestByScoreStep(w, clone_and_drop(b, cands[i], player), cands, player,
                         i, best)

\* select_move returns the column found by a loop, or found.val
Picked(found) == [val |-> found.val, err |-> "none", arg |-> found.arg]

\* mutant: the list is left in index order
ByIndex(b, my_forks) == my_forks

\* my_forks.sort(key = lambda x: abs(x - mid)); the keys are doubled
ByMidpoint(b, my_forks) ==
    Sorted(my_forks, [c \in 0..(b.cols - 1) |-> Abs(2 * c - (b.cols - 1))])

\* tiers 4 and 5, opp_forks being what _opponent_has_double_threat gave:
\* the best-score loop runs over the candidates if there are any, else over
\* the legal columns
TierOppForks(w, player, legal_cols, opp_forks) ==
    Picked(BestByScore(w, opp_forks.arg,
               IF Filter(opp_forks.val,
                         {legal_cols[i] : i \in DOMAIN legal_cols}) # <<>>
               THEN Filter(opp_forks.val,
                           {legal_cols[i] : i \in DOMAIN legal_cols})
               ELSE legal_cols,
               player, 1, NoBest))

\* tier 3, my_forks being the columns that create a double threat
TierMyForks(w, b, player, legal_cols, my_forks) ==
    IF my_forks.val # <<>>
    THEN [val |-> ByMidpoint(b, my_forks.val)[1], err |-> "none",
          arg |-> my_forks.arg]
    ELSE TierOppForks(w, player, legal_cols,
                      opponent_has_double_threat(my_forks.arg, player))

\* tier 2, opp_wins being the opponent's immediate wins
TierBlock(w, b, player, legal_cols, opp_wins) ==
    IF opp_wins.val # <<>>
    THEN Picked(BestByScore(w, opp_wins.arg, opp_wins.val, player, 1, NoBest))
    ELSE TierMyForks(w, b, player, legal_cols,
                     DoubleThreatLoop(opp_wins.arg, legal_cols, player, 1, <<>>))

\* mutant: the last immediate win is returned
TierWinLast(w, b, player, legal_cols, my_wins) ==
    IF my_wins.val # <<>>
    THEN [val |-> my_wins.val[Len(my_wins.val)], err |-> "none",
          arg |-> my_wins.arg]
    ELSE TierBlock(w, b, player, legal_cols,
                   immediate_wins(my_wins.arg, opp(player)))

\* tier 1, my_wins being the player's immediate wins
TierWin(w, b, player, legal_cols, my_wins) ==
    IF my_wins.val # <<>>
    THEN [val |-> my_wins.val[1], err |-> "none", arg |-> my_wins.arg]
    ELSE TierBlock(w, b, player, legal_cols,
                   immediate_wins(my_wins.arg, opp(player)))

\* _HeuristicBase.select_move: the five tiers.  The result is the column
\* returned (val) or the error raised (err), and the caller's board as the
\* call leaves it (arg)
heuristic_select_move(w, b, player) ==
    IF LegalCols(b) = <<>>
    THEN [val |-> -1, err |-> "NoLegalMoves", arg |-> b]
    ELSE TierWin(w, b, player, LegalCols(b), immediate_wins(b, player))

----------------------------------------------------------------------------
(* src/random_agent.py *)

\* mutant: the choice is made among all the columns
random_select_move_any(b) ==
    {[val |-> c, err |-> "none", arg |-> b] : c \in 0..(b.cols - 1)}

\* RandomAgent.select_move: the columns rng.choice may return, or the error
random_select_move(b) ==
    LET legal_moves == LegalCols(b)
    IN  IF legal_moves = <<>>
        THEN {[val |-> -1, err |-> "NoLegalMoves", arg |-> b]}
        ELSE {[val |-> legal_moves[i], err |-> "none", arg |-> b] :
                 i \in DOMAIN legal_moves}

----------------------------------------------------------------------------
(* src/agents/minimax_agent.py *)

\* INF = 10**12 in the source.  The values compared with it are INF // 2 +-
\* depth and evaluator scores below 10**7 in size; it is scaled to the
\* integers of the checker, which keeps every one of those comparisons
INF == 2000000000

\* sorted(legal_cols, key = lambda c: abs(c - center))
ordered_moves(b, legal_cols) ==
    Sorted(legal_cols, [c \in 0..(b.cols - 1) |-> Abs(c - (b.cols \div 2))])

\* what an instance of OffensiveAgent answers to: the attributes set by
\* _HeuristicBase.__init__ and the methods of the class
EvalAgentAttributes ==
    {"name", "w_win", "w_block", "w_pot", "w_center", "w_my_fork", "w_opp_fork",
     "_score_position", "select_move"}

\* self.eval_agent.score_position(node, last_col = ..., player = ...): the
\* attribute is looked up on the evaluator, then called
eval_agent_score_position(node, last_col, player) ==
    IF "score_position" \in EvalAgentAttributes
    THEN [val |-> score_position(Profiles.offensive, node, last_col, player),
          err |-> "none"]
    ELSE [val |-> 0, err |-> "AttributeError"]

\* MinimaxAgent._minimax, and its loop over the ordered moves from index i
\* on with the running value, alpha and beta.  The result is the value
\* returned (val) or the error raised (err)
RECURSIVE minimax(_, _, _, _, _, _, _)
RECURSIVE MinimaxLoop(_, _, _, _, _, _, _, _, _)
MinimaxLoop(node, moves, i, depth, alpha, beta, maximizing, max_player, value) ==
    IF i > Len(moves)
    THEN [val |-> value, err |-> "none"]
    ELSE LET m == moves[i]
             cd == clone_and_drop(node, m,
                       IF maximizing THEN max_player ELSE opp(max_player))
             child == minimax(cd.board, depth - 1, alpha, beta, ~maximizing,
                              max_player, m)
         IN  IF child.err # "none"
             THEN child
             ELSE IF maximizing
             THEN LET v == IF child.val > value THEN child.val ELSE value
                      a == IF v > alpha THEN v ELSE alpha
                  IN  IF a >= beta
                      THEN [val |-> v, err |-> "none"]
                      ELSE MinimaxLoop(cd.arg, moves, i + 1, depth, a, beta,
                                       maximizing, max_player, v)
             ELSE LET v == IF child.val < value THEN child.val ELSE value
                      bt == IF v < beta THEN v ELSE beta
                  IN  IF alpha >= bt
                      THEN [val |-> v, err |-> "none"]
                      ELSE MinimaxLoop(cd.arg, moves, i + 1, depth, alpha, bt,
                                       maximizing, max_player, v)

minimax(node, depth, alpha, beta, maximizing, max_player, last_col) ==
    LET w == winner(node)
        legal == LegalCols(node)
    IN  IF w = max_player
        THEN [val |-> (INF \div 2) + depth, err |-> "none"]
        ELSE IF w = opp(max_player)
        THEN [val |-> ((-INF) \div 2) - depth, err |-> "none"]
        ELSE IF depth = 0 \/ legal = <<>>
        THEN eval_agent_score_position(node, last_col, max_player)
        ELSE MinimaxLoop(node, ordered_moves(node, legal), 1, depth, alpha, beta,
                         maximizing, max_player, IF maximizing THEN -INF ELSE INF)

\* the loop of MinimaxAgent.select_move over the ordered moves from index i
\* on; an error raised in the search leaves select_move
RECURSIVE MinimaxRootLoop(_, _, _, _, _, _, _, _)
MinimaxRootLoop(b, moves, i, depth, alpha, player, best_value, best_move) ==
    IF i > Len(moves)
    THEN [val |-> best_move, err |-> "none", arg |-> b]
    ELSE LET m == moves[i]
             cd == clone_and_drop(b, m, player)
             res == minimax(cd.board, depth - 1, alpha, INF, FALSE, player, m)
         IN  IF res.err # "none"
             THEN [val |-> -1, err |-> res.err, arg |-> cd.arg]
             ELSE MinimaxRootLoop(cd.arg, moves, i + 1, depth,
                      IF res.val > alpha THEN res.val ELSE alpha, player,
                      IF res.val > best_value THEN res.val ELSE best_value,
                      IF res.val > best_value THEN m ELSE best_move)

\* MinimaxAgent.select_move with self.depth = depth
minimax_select_move(depth, b, player) ==
    LET legal == LegalCols(b)
    IN  IF legal = <<>>
        THEN [val |-> -1, err |-> "NoLegalMoves", arg |-> b]
        ELSE MinimaxRootLoop(b, ordered_moves(b, legal), 1, depth, -INF, player,
                             -INF, legal[1])

----------------------------------------------------------------------------
(* src/agents/mcts_agent.py

   The rollout drops tokens in place, so the Board objects of a search are
   kept apart: h is the sequence of the Board objects alive, h[1] the
   caller's board, and a board is named by its index in h (ref).  A tree
   node is named by the moves that lead to it from the root (the root is
   <<>>): its parent is the path without the last move, its move is the
   last move. *)

\* mutant: the board itself is handed back, no copy is made
mcts_clone_board_same(h, ref) == [h |-> h, ref |-> ref]

\* _clone_board: a new Board object with new rows
mcts_clone_board(h, ref) ==
    LET b  == h[ref]
        nb == [NewBoard(b.rows, b.cols, b.connect) EXCEPT
                   !.grid = [r \in 0..(b.rows - 1) |->
                               [c \in 0..(b.cols - 1) |-> b.grid[r][c]]],
                   !.moves = b.moves]
    IN  [h |-> Append(h, nb), ref |-> Len(h) + 1]

\* the board ref takes the outcome res of a drop made on it
Dropped(h, ref, res) ==
    [h |-> [h EXCEPT ![ref] = res.board], ref |-> ref, err |-> res.err]

\* state.drop(col, pid) on the board ref, in place
drop_on(h, ref, col, pid) == Dropped(h, ref, drop(h[ref], col, pid))

\* nb.drop(col, pid) on the copy cl
DropOnClone(cl, col, pid) == drop_on(cl.h, cl.ref, col, pid)

\* _clone_and_drop of mcts_agent.py: the drop is made on the copy
mcts_clone_and_drop(h, ref, col, pid) ==
    DropOnClone(mcts_clone_board(h, ref), col, pid)

is_terminal(b) == winner(b) # 0 \/ is_full(b)

\* _Node.__init__
Node(to_play) == [to_play |-> to_play, children |-> <<>>, N |-> 0, W |-> 0]

Parent(path) == SubSeq(path, 1, Len(path) - 1)

\* float("inf") among the UCT values, which stay below it
UctInf == 1000000000

\* math.log(n) * 10^8 for n = 1..5, rounded
LnScaled == <<0, 69314718, 109861229, 138629436, 160943791>>

\* floor of the square root, by bisection on lo..hi
RECURSIVE ISqrtIn(_, _, _)
ISqrtIn(x, lo, hi) ==
    IF lo >= hi
    THEN lo
    ELSE LET mid == (lo + hi + 1) \div 2
         IN  IF mid * mid <= x THEN ISqrtIn(x, mid, hi) ELSE ISqrtIn(x, lo, mid - 1)

\* mutant: a node never visited gets the value 0 instead of infinity
uct_value_unvisited_zero(tree, path) ==
    LET node == tree[path]
    IN  IF node.N = 0
        THEN [val |-> 0, err |-> "none"]
        ELSE IF path = <<>> \/ tree[Parent(path)].N <= 0
        THEN [val |-> 0, err |-> "AssertionError"]
        ELSE [val |-> ((node.W * 10000) \div node.N)
                      + ISqrtIn((2 * LnScaled[tree[Parent(path)].N]) \div node.N,
                                0, 46340),
              err |-> "none"]

\* _Node.uct_value with c = sqrt(2), the default, in units of 10^-4:
\* W / N + sqrt(2 * log(parent.N) / N).  On the counts met here (parent.N up
\* to 5) the order and the ties of these integers are those of the floats
uct_value(tree, path) ==
    LET node == tree[path]
    IN  IF node.N = 0
        THEN [val |-> UctInf, err |-> "none"]
        ELSE IF path = <<>> \/ tree[Parent(path)].N <= 0
        THEN [val |-> 0, err |-> "AssertionError"]
        ELSE [val |-> ((node.W * 10000) \div node.N)
                      + ISqrtIn((2 * LnScaled[tree[Parent(path)].N]) \div node.N,
                                0, 46340),
              err |-> "none"]

\* mutant: the index of the last element of greatest key
LastMax(keys) ==
    CHOOSE i \in DOMAIN keys :
        /\ \A j \in DOMAIN keys : keys[j] <= keys[i]
        /\ \A j \in (i + 1)..Len(keys) : keys[j] < keys[i]

\* max(seq, key = ...): the index of the first element of greatest key
FirstMax(keys) ==
    CHOOSE i \in DOMAIN keys :
        /\ \A j \in DOMAIN keys : keys[j] <= keys[i]
        /\ \A j \in 1..(i - 1) : keys[j] < keys[i]

\* the loop of _select at the node path, state being the board ref
\* (SelectLoop), and its steps: the UCT values ucts of the children are
\* computed, the first child of greatest value is taken (SelectBest), the
\* move is made on a copy cd of the state (SelectMove), the loop goes on
\* unless the node is new or the state is terminal (SelectStep)
RECURSIVE SelectLoop(_, _, _, _)
SelectStep(tree, next, cd) ==
    IF cd.err # "none"
    THEN [path |-> next, h |-> cd.h, ref |-> cd.ref, err |-> cd.err]
    ELSE IF tree[next].N = 0 \/ is_terminal(cd.h[cd.ref])
         THEN [path |-> next, h |-> cd.h, ref |-> cd.ref, err |-> "none"]
         ELSE SelectLoop(tree, cd.h, next, cd.ref)

SelectMove(tree, h, path, ref, move) ==
    SelectStep(tree, Append(path, move),
               mcts_clone_and_drop(h, ref, move, tree[path].to_play))

SelectBest(tree, h, path, ref, ucts) ==
    IF \E i \in DOMAIN ucts : ucts[i].err # "none"
    THEN [path |-> path, h |-> h, ref |-> ref, err |-> "AssertionError"]
    ELSE SelectMove(tree, h, path, ref,
             tree[path].children[FirstMax([i \in DOMAIN ucts |-> ucts[i].val])])

SelectLoop(tree, h, path, ref) ==
    IF tree[path].children = <<>>
    THEN [path |-> path, h |-> h, ref |-> ref, err |-> "none"]
    ELSE SelectBest(tree, h, path, ref,
             [i \in DOMAIN tree[path].children |->
                 uct_value(tree, Append(path, tree[path].children[i]))])

\* MCTSAgent._select: the path is the node reached, with its prefixes
SelectFrom(tree, cl) == SelectLoop(tree, cl.h, <<>>, cl.ref)

select(tree, h, root_state) == SelectFrom(tree, mcts_clone_board(h, root_state))

IsPrefix(p, q) == Len(p) <= Len(q) /\ SubSeq(q, 1, Len(p)) = p

\* the tree after node.children[col] = _Node(...) for the columns legal,
\* fresh being the new nodes.  A key already in the dict keeps its place
\* and gets the new node, whose subtree is empty
WithChildren(tree, path, legal, fresh) ==
    [p \in {q \in DOMAIN tree : \A f \in fresh : ~IsPrefix(f, q)} \cup fresh |->
        IF p = path
        THEN [tree[p] EXCEPT
                 !.children =
                     @ \o Filter(legal, {legal[i] : i \in DOMAIN legal}
                                           \ {@[i] : i \in DOMAIN @})]
        ELSE IF p \in fresh
             THEN Node(opp(tree[path].to_play))
             ELSE tree[p]]

\* mutant: only the first legal column gets a child
ExpandToFirst(tree, path, legal) ==
    WithChildren(tree, path, <<legal[1]>>, {Append(path, legal[1])})

ExpandTo(tree, path, legal) ==
    WithChildren(tree, path, legal, {Append(path, legal[i]) : i \in DOMAIN legal})

\* MCTSAgent._expand
expand(tree, path, state) ==
    IF is_terminal(state)
    THEN tree
    ELSE ExpandTo(tree, path, LegalCols(state))

\* mutant: the reward is +1 when the outcome is the node's to_play
backprop_for_to_play(tree, path, outcome) ==
    [p \in DOMAIN tree |->
        IF IsPrefix(p, path)
        THEN [tree[p] EXCEPT
                 !.N = @ + 1,
                 !.W = @ + (IF outcome = 0
                            THEN 0
                            ELSE IF outcome = tree[p].to_play THEN 1 ELSE -1)]
        ELSE tree[p]]

\* MCTSAgent._backprop over the nodes of the path, the prefixes of path
backprop(tree, path, outcome) ==
    [p \in DOMAIN tree |->
        IF IsPrefix(p, path)
        THEN [tree[p] EXCEPT
                 !.N = @ + 1,
                 !.W = @ + (IF outcome = 0
                            THEN 0
                            ELSE IF outcome = opp(tree[p].to_play) THEN 1 ELSE -1)]
        ELSE tree[p]]

\* _policy_move, first loop: `for c in legal: b2 = _clone_and_drop(state, c,
\* pid); if b2.winner() == pid: return c`, from index i on (PolicyWinLoop),
\* and its step after the copy b2 is made
RECURSIVE PolicyWinLoop(_, _, _, _, _)
PolicyWinStep(b2, ref, legal, i, pid) ==
    IF winner(b2.h[b2.ref]) = pid
    THEN [h |-> b2.h, found |-> TRUE, col |-> legal[i]]
    ELSE PolicyWinLoop(b2.h, ref, legal, i + 1, pid)

PolicyWinLoop(h, ref, legal, i, pid) ==
    IF i > Len(legal)
    THEN [h |-> h, found |-> FALSE, col |-> -1]
    ELSE PolicyWinStep(mcts_clone_and_drop(h, ref, legal[i], pid), ref, legal,
                       i, pid)

\* the inner loop over the opponent's replies cc on the board b2, up to the
\* break (MateLoop), and its step after the copy b3 is made
RECURSIVE MateLoop(_, _, _, _, _)
MateStep(b3, b2, opp_legal, j, op) ==
    IF winner(b3.h[b3.ref]) = op
    THEN [h |-> b3.h, mate |-> TRUE]
    ELSE MateLoop(b3.h, b2, opp_legal, j + 1, op)

MateLoop(h, b2, opp_legal, j, op) ==
    IF j > Len(opp_legal)
    THEN [h |-> h, mate |-> FALSE]
    ELSE MateStep(mcts_clone_and_drop(h, b2, opp_legal[j], op), b2, opp_legal,
                  j, op)

\* the second loop: the moves after which the opponent has no mate in 1
\* (PolicySafeLoop); its steps after the copy b2 is made (PolicySafeReplies)
\* and after the inner loop has ended with ml (PolicySafeStep)
RECURSIVE PolicySafeLoop(_, _, _, _, _, _)
PolicySafeStep(ml, ref, legal, i, pid, safe_moves) ==
    PolicySafeLoop(ml.h, ref, legal, i + 1, pid,
                   IF ml.mate THEN safe_moves ELSE Append(safe_moves, legal[i]))

PolicySafeReplies(b2, ref, legal, i, pid, safe_moves) ==
    PolicySafeStep(MateLoop(b2.h, b2.ref, LegalCols(b2.h[b2.ref]), 1, opp(pid)),
                   ref, legal, i, pid, safe_moves)

PolicySafeLoop(h, ref, legal, i, pid, safe_moves) ==
    IF i > Len(legal)
    THEN [h |-> h, safe_moves |-> safe_moves]
    ELSE PolicySafeReplies(mcts_clone_and_drop(h, ref, legal[i], pid), ref,
                           legal, i, pid, safe_moves)

\* the draw from the pool.  The weighted draw of the center bias gives every
\* column of the pool a weight above 0, so it can return each of them, as
\* rng.choice can.  n is the number of boards before the call: the copies
\* b2, b3 made by _policy_move are dropped at return
PolicyDraw(h, n, pool, center_bias) ==
    IF pool = <<>>
    THEN [h |-> SubSeq(h, 1, n), cols |-> {-1}, err |-> "IndexError"]
    ELSE IF center_bias /\ Len(pool) > 1
         THEN [h |-> SubSeq(h, 1, n), cols |-> {pool[i] : i \in DOMAIN pool},
               err |-> "none"]
         ELSE [h |-> SubSeq(h, 1, n), cols |-> {pool[i] : i \in DOMAIN pool},
               err |-> "none"]

\* mutant: the pool is always the legal columns
PolicyPoolLegal(n, legal, center_bias, safe) ==
    PolicyDraw(safe.h, n, legal, center_bias)

\* pool = safe_moves if safe_moves else legal
PolicyPool(n, legal, center_bias, safe) ==
    PolicyDraw(safe.h, n, IF safe.safe_moves # <<>> THEN safe.safe_moves ELSE legal,
               center_bias)

\* after the first loop has ended with win
PolicyAfterWin(n, ref, legal, pid, center_bias, win) ==
    IF win.found
    THEN [h |-> SubSeq(win.h, 1, n), cols |-> {win.col}, err |-> "none"]
    ELSE PolicyPool(n, legal, center_bias,
                    PolicySafeLoop(win.h, ref, legal, 1, pid, <<>>))

PolicyFrom(h, ref, legal, pid, center_bias) ==
    PolicyAfterWin(Len(h), ref, legal, pid, center_bias,
                   PolicyWinLoop(h, ref, legal, 1, pid))

\* MCTSAgent._policy_move on the board ref: the columns it may return (cols),
\* over the draws of the generator, and the boards as it leaves them
policy_move(h, ref, pid, center_bias) ==
    PolicyFrom(h, ref, LegalCols(h[ref]), pid, center_bias)

\* MCTSAgent._rollout on the board ref after `steps` plies: every way it can
\* end, with the outcome returned and the boards as it leaves them.
\* rollout_max_len = 0 stands for None (and for 0, as falsy): no cap.
\* RolloutDrop is the loop body after state.drop has given d, RolloutPly
\* after _policy_move has given pm, RolloutAt after winner() has given w
RECURSIVE rollout(_, _, _, _, _, _)
RolloutDrop(d, to_play, steps, rollout_max_len, center_bias) ==
    IF d.err # "none"
    THEN {[h |-> d.h, outcome |-> -1, err |-> d.err]}
    ELSE IF rollout_max_len # 0 /\ steps + 1 >= rollout_max_len
         THEN {[h |-> d.h, outcome |-> 0, err |-> "none"]}
         ELSE rollout(d.h, d.ref, opp(to_play), steps + 1, rollout_max_len,
                      center_bias)

RolloutPly(ref, to_play, steps, rollout_max_len, center_bias, pm) ==
    IF pm.err # "none"
    THEN {[h |-> pm.h, outcome |-> -1, err |-> pm.err]}
    ELSE UNION {RolloutDrop(drop_on(pm.h, ref, col, to_play), to_play, steps,
                            rollout_max_len, center_bias) : col \in pm.cols}

RolloutAt(h, ref, to_play, steps, rollout_max_len, center_bias, w) ==
    IF w # 0
    THEN {[h |-> h, outcome |-> w, err |-> "none"]}
    ELSE IF is_full(h[ref])
         THEN {[h |-> h, outcome |-> 0, err |-> "none"]}
         ELSE RolloutPly(ref, to_play, steps, rollout_max_len, center_bias,
                         policy_move(h, ref, to_play, center_bias))

rollout(h, ref, to_play, steps, rollout_max_len, center_bias) ==
    RolloutAt(h, ref, to_play, steps, rollout_max_len, center_bias,
              winner(h[ref]))

\* mutant: only the last node of the path is counted
BackedLeafOnly(tree, path, ro) ==
    IF ro.err # "none"
    THEN [tree |-> tree, h |-> ro.h, err |-> ro.err, path |-> path,
          outcome |-> ro.outcome]
    ELSE [tree |-> [tree EXCEPT ![path].N = @ + 1], h |-> ro.h, err |-> "none",
          path |-> path, outcome |-> ro.outcome]

\* the end of an iteration: the rollout has given ro, the path is backed up.
\* The path and the outcome are kept with the result
Backed(tree, path, ro) ==
    IF ro.err # "none"
    THEN [tree |-> tree, h |-> ro.h, err |-> ro.err, path |-> path,
          outcome |-> ro.outcome]
    ELSE [tree |-> backprop(tree, path, ro.outcome), h |-> ro.h, err |-> "none",
          path |-> path, outcome |-> ro.outcome]

\* rollout and backprop from the leaf lf = (path, board ref)
IterateLeaf(tree, rollout_max_len, center_bias, lf) ==
    IF lf.err # "none"
    THEN {[tree |-> tree, h |-> lf.h, err |-> lf.err, path |-> lf.path,
           outcome |-> -1]}
    ELSE {Backed(tree, lf.path, ro) :
             ro \in rollout(lf.h, lf.ref, tree[lf.path].to_play, 0,
                            rollout_max_len, center_bias)}

\* leaf = child; leaf_state = _clone_and_drop(leaf_state, child.move, ...)
LeafOf(path, cd) == [path |-> path, h |-> cd.h, ref |-> cd.ref, err |-> cd.err]

\* mutant: the move is made but the child is not added to the path
ChildLeafStay(tree, sel, move) ==
    LeafOf(sel.path,
           mcts_clone_and_drop(sel.h, sel.ref, move, tree[sel.path].to_play))

ChildLeaf(tree, sel, move) ==
    LeafOf(Append(sel.path, move),
           mcts_clone_and_drop(sel.h, sel.ref, move, tree[sel.path].to_play))

\* after _expand: `if leaf.children: child = rng.choice(...)`, any child
IterateExpanded(tree, rollout_max_len, center_bias, sel) ==
    UNION {IterateLeaf(tree, rollout_max_len, center_bias, lf) :
              lf \in IF tree[sel.path].children = <<>>
                     THEN {sel}
                     ELSE {ChildLeaf(tree, sel, tree[sel.path].children[i]) :
                              i \in DOMAIN tree[sel.path].children}}

\* after _select has given sel = (path, leaf_state)
IterateFrom(tree, rollout_max_len, center_bias, sel) ==
    IF sel.err # "none"
    THEN {[tree |-> tree, h |-> sel.h, err |-> sel.err, path |-> sel.path,
           outcome |-> -1]}
    ELSE IF is_terminal(sel.h[sel.ref])
         THEN IterateLeaf(tree, rollout_max_len, center_bias, sel)
         ELSE IterateExpanded(expand(tree, sel.path, sel.h[sel.ref]),
                              rollout_max_len, center_bias, sel)

\* MCTSAgent._iterate: every way one iteration can go, over the draws of the
\* generator; the tree and the boards as it leaves them, or the error raised
iterate(tree, h, root_state, rollout_max_len, center_bias) ==
    IterateFrom(tree, rollout_max_len, center_bias, select(tree, h, root_state))

\* mutant: rng.choice(legal) is reached without the test of legal
mcts_final_move_unchecked(tree, b) ==
    LET legal == LegalCols(b)
        ch == tree[<<>>].children
        best == ch[FirstMax([i \in DOMAIN ch |-> tree[<<ch[i]>>].N])]
    IN  IF ch = <<>>
        THEN IF legal = <<>>
             THEN {[val |-> -1, err |-> "IndexError"]}
             ELSE {[val |-> legal[i], err |-> "none"] : i \in DOMAIN legal}
        ELSE {[val |-> best, err |-> "none"]}

\* the end of MCTSAgent.select_move, after the loop: the columns it may
\* return, or the error.  legal is read from the caller's board
mcts_final_move(tree, b) ==
    LET legal == LegalCols(b)
        ch == tree[<<>>].children
        best == ch[FirstMax([i \in DOMAIN ch |-> tree[<<ch[i]>>].N])]
    IN  IF ch = <<>>
        THEN IF legal = <<>>
             THEN {[val |-> -1, err |-> "NoLegalMoves"]}
             ELSE {[val |-> legal[i], err |-> "none"] : i \in DOMAIN legal}
        ELSE {[val |-> best, err |-> "none"]}

----------------------------------------------------------------------------
(* The agents as a state machine.  The board is the smallest the constructor
   accepts, MIN_RC x MIN_RC with runs of MinConnect; tokens of either player
   are dropped on it in any order, then one agent is asked for a move:
   select_move(board, player).  The heuristic, minimax and random calls are
   one step each; the MCTS call is a step that builds root and root_state,
   one step per iteration, and a step that returns.  The MCTS loop runs
   `sims` times or until the deadline: it leaves after any number of
   iterations, here at most MaxSims. *)

\* self.depth of the minimax agent is in 1..MaxDepth
MaxDepth == 2

\* iterations of one MCTS call
MaxSims == 3

\* MCTS is asked on the boards with at most MaxFree empty cells
MaxFree == 3

\* rollout_max_len is None (0) or in 1..MaxRolloutLen
MaxRolloutLen == 1

FreeCells(b) == b.rows * b.cols - b.moves

InitAgents ==
    /\ board = NewBoard(MIN_RC, MIN_RC, MinConnect)
    /\ last = [op |-> "init", err |-> "none"]
    /\ ret = NoRet
    /\ call = NoCall
    /\ search = NoSearch

\* a token is dropped before any agent is asked
Setup(col, player) ==
    /\ call.agent = "none"
    /\ drop(board, col, player).err = "none"
    /\ Drop(col, player)

\* select_move has returned res, after the call c
Return(c, res) ==
    /\ call' = c
    /\ last' = [op |-> "select_move", err |-> res.err]
    /\ ret' = [val |-> res.val]

HeuristicSelect(profile, player) ==
    /\ call.agent = "none"
    /\ LET res == heuristic_select_move(Profiles[profile], board, player)
       IN  /\ board' = res.arg
           /\ Return([NoCall EXCEPT !.agent = "heuristic", !.player = player,
                                    !.profile = profile, !.entry = board], res)
    /\ UNCHANGED search

MinimaxSelect(depth, player) ==
    /\ call.agent = "none"
    /\ LET res == minimax_select_move(depth, board, player)
       IN  /\ board' = res.arg
           /\ Return([NoCall EXCEPT !.agent = "minimax", !.player = player,
                                    !.depth = depth, !.entry = board], res)
    /\ UNCHANGED search

RandomSelect(player) ==
    /\ call.agent = "none"
    /\ \E res \in random_select_move(board) :
           /\ board' = res.arg
           /\ Return([NoCall EXCEPT !.agent = "random", !.player = player,
                                    !.entry = board], res)
    /\ UNCHANGED search

\* MCTSAgent.select_move up to the loop: root and root_state
MctsStart(player, rollout_max_len) ==
    /\ call.agent = "none"
    /\ FreeCells(board) <= MaxFree
    /\ LET cl == mcts_clone_board(<<board>>, 1)
       IN  /\ board' = cl.h[1]
           /\ search' = [heap |-> Tail(cl.h), root_state |-> cl.ref,
                         tree |-> (<<>> :> Node(player)), iters |-> 0]
    /\ call' = [NoCall EXCEPT !.agent = "mcts", !.player = player,
                              !.rollout_max_len = rollout_max_len,
                              !.entry = board]
    /\ last' = [op |-> "searching", err |-> "none"]
    /\ ret' = NoRet

\* one self._iterate(root, root_state); the boards it made are dropped when
\* it returns.  center_bias does not change what an iteration can do
MctsIterate ==
    /\ last.op = "searching"
    /\ search.iters < MaxSims
    /\ LET h == <<board>> \o search.heap
       IN  \E center_bias \in BOOLEAN :
           \E res \in iterate(search.tree, h, search.root_state,
                              call.rollout_max_len, center_bias) :
               /\ board' = res.h[1]
               /\ search' = [search EXCEPT
                                !.heap = Tail(SubSeq(res.h, 1, Len(h))),
                                !.tree = res.tree,
                                !.iters = IF res.err = "none" THEN @ + 1 ELSE @]
               /\ IF res.err = "none"
                  THEN UNCHANGED <<last, ret>>
                  ELSE /\ last' = [op |-> "select_move", err |-> res.err]
                       /\ ret' = NoRet
    /\ UNCHANGED call

\* the loop is left: the move is picked and returned
MctsReturn ==
    /\ last.op = "searching"
    /\ \E res \in mcts_final_move(search.tree, board) : Return(call, res)
    /\ UNCHANGED <<board, search>>

NextAgents ==
    \/ \E col \in 0..(board.cols - 1), player \in {1, 2} : Setup(col, player)
    \/ \E profile \in DOMAIN Profiles, player \in {1, 2} :
           HeuristicSelect(profile, player)
    \/ \E depth \in 1..MaxDepth, player \in {1, 2} : MinimaxSelect(depth, player)
    \/ \E player \in {1, 2} : RandomSelect(player)
    \/ \E player \in {1, 2}, rollout_max_len \in 0..MaxRolloutLen :
           MctsStart(player, rollout_max_len)
    \/ MctsIterate
    \/ MctsReturn

SpecAgents == InitAgents /\ [][NextAgents]_vars

----------------------------------------------------------------------------
(* Claims about select_move *)

\* select_move has returned or raised
Returned == last.op = "select_move"

\* the board the agent was asked on has a full column and an open one
PartlyOpen(b) ==
    /\ \E c \in 0..(b.cols - 1) : valid_moves(b)[c]
    /\ \E c \in 0..(b.cols - 1) : ~valid_moves(b)[c]

(* C7: on a board with at least one legal column, for either player,
   select_move of the heuristic agent, of the MCTS agent (after any number of
   iterations, 0 too, and also on a root that already has a winner) and of
   the random agent returns, without raising, a column c for which
   valid_moves()[c] is true. *)
C7_LegalColumn ==
    (/\ Returned
     /\ call.agent \in {"heuristic", "mcts", "random"}
     /\ LegalCols(call.entry) # <<>>) =>
        /\ last.err = "none"
        /\ ret.val \in 0..(board.cols - 1)
        /\ valid_moves(board)[ret.val]
        /\ valid_moves(call.entry)[ret.val]

\* MCTS has iterated on a board that is already won and has a full column,
\* and has returned an open column
C7_Witness ==
    /\ Returned
    /\ call.agent = "mcts"
    /\ search.iters >= 1
    /\ winner(call.entry) # 0
    /\ PartlyOpen(call.entry)
    /\ last.err = "none"
    /\ valid_moves(board)[ret.val]

(* C8: select_move of the heuristic, minimax and MCTS agents leaves the
   caller's board as it was at entry, grid and moves, while it runs and when
   it has returned or raised; and the MCTS root copy keeps the value of the
   board at entry between the iterations. *)
C8_BoardNotMutated ==
    call.agent \in {"heuristic", "minimax", "mcts"} =>
        /\ board = call.entry
        /\ call.agent = "mcts" =>
              (<<board>> \o search.heap)[search.root_state] = call.entry

\* MCTS has returned after two iterations or more from an undecided board
\* with three empty cells or more; a root child visited once stands at 0: its
\* rollout went on, by drops in place, to a draw
C8_Witness ==
    /\ Returned
    /\ call.agent = "mcts"
    /\ search.iters >= 2
    /\ winner(call.entry) = 0
    /\ FreeCells(call.entry) >= 3
    /\ \E i \in DOMAIN search.tree[<<>>].children :
          LET child == search.tree[<<search.tree[<<>>].children[i]>>]
          IN  child.N = 1 /\ child.W = 0
    /\ board = call.entry

(* C9: on a board with no legal column, select_move of every strategy
   (heuristic, minimax, MCTS after any number of iterations, random) raises
   the no-legal-moves error and returns no column. *)
C9_NoLegalMoves ==
    (Returned /\ LegalCols(call.entry) = <<>>) =>
        /\ last.err = "NoLegalMoves"
        /\ ret = NoRet

\* MCTS has iterated on a full board and raised the error
C9_Witness ==
    /\ Returned
    /\ call.agent = "mcts"
    /\ search.iters >= 1
    /\ LegalCols(call.entry) = <<>>
    /\ last.err = "NoLegalMoves"

(* C10: on a board with exactly one legal column, select_move of the
   heuristic agent, of the minimax agent at any depth and of the MCTS agent
   after any number of iterations returns that column. *)
C10_OnlyColumn ==
    (/\ Returned
     /\ call.agent \in {"heuristic", "minimax", "mcts"}
     /\ Len(LegalCols(call.entry)) = 1) =>
        /\ last.err = "none"
        /\ ret.val = LegalCols(call.entry)[1]

\* minimax was asked on an undecided board with one legal column and raised
\* instead of returning it
C10_MinimaxRaises ==
    /\ Returned
    /\ call.agent = "minimax"
    /\ call.depth = 1
    /\ Len(LegalCols(call.entry)) = 1
    /\ winner(call.entry) = 0
    /\ last.err = "AttributeError"
    /\ ret = NoRet

----------------------------------------------------------------------------
(* Vocabulary of the claims about the tiers and the search *)

\* the legal columns of b in which a drop of p makes winner() return p
ImmediateWinCols(b, p) ==
    {c \in 0..(b.cols - 1) :
        valid_moves(b)[c] /\ winner(drop(b, c, p).board) = p}

\* the legal columns of b after which p has two winning columns or more
DoubleThreatCols(b, p) ==
    {c \in 0..(b.cols - 1) :
        /\ valid_moves(b)[c]
        /\ Cardinality(ImmediateWinCols(drop(b, c, p).board, p)) >= 2}

\* the legal columns of b that do not give the opponent of p an immediate
\* win: the drop wins, or the opponent has no winning reply
SafeCols(b, p) ==
    {c \in 0..(b.cols - 1) :
        /\ valid_moves(b)[c]
        /\ \/ winner(drop(b, c, p).board) = p
           \/ ImmediateWinCols(drop(b, c, p).board, opp(p)) = {}}

(* C11: on an undecided board where exactly one legal column avoids giving
   the opponent an immediate win on their next move, select_move of the
   minimax agent with depth >= 2 returns that column. *)
C11_SafeColumn ==
    (/\ Returned
     /\ call.agent = "minimax"
     /\ call.depth >= 2
     /\ winner(call.entry) = 0
     /\ Cardinality(SafeCols(call.entry, call.player)) = 1) =>
        /\ last.err = "none"
        /\ ret.val \in SafeCols(call.entry, call.player)

\* minimax of depth 2 was asked on such a board, with a losing column
\* beside the safe one, and raised instead of returning the safe column
C11_MinimaxRaises ==
    /\ Returned
    /\ call.agent = "minimax"
    /\ call.depth = 2
    /\ winner(call.entry) = 0
    /\ Cardinality(SafeCols(call.entry, call.player)) = 1
    /\ Len(LegalCols(call.entry)) >= 2
    /\ last.err = "AttributeError"
    /\ ret = NoRet

----------------------------------------------------------------------------
(* The stacked-column scenario on the default board: Board() is 6 rows by 7
   columns with connect 4.  Tokens are dropped while the tokens of one of
   the players all lie in one column; then the heuristic or the minimax
   agent is asked for a move of a player who has three tokens stacked under
   an open cell, on a board without a winner. *)

ROWS == 6

COLS == 7

DEFAULT_CONNECT == 4

\* depth of MinimaxAgent() when none is given
DefaultDepth == 6

\* tokens on the board of the scenario
MaxStackTokens == 3

\* p has three tokens on top of each other in column c, the cell above open
Stacked(b, p, c) ==
    \E r \in 1..(b.rows - 3) :
        /\ b.grid[r - 1][c] = 0
        /\ \A i \in 0..2 : b.grid[r + i][c] = p

\* the columns of b where p has such a stack, if b has no winner
StackCols(b, p) ==
    {c \in 0..(b.cols - 1) : winner(b) = 0 /\ Stacked(b, p, c)}

\* the tokens of one of the players all lie in one column
OneColumn(b) ==
    \E p \in {1, 2}, c \in 0..(b.cols - 1) :
        \A x \in Cells(b) : b.grid[x[1]][x[2]] = p => x[2] = c

InitStack ==
    /\ board = NewBoard(ROWS, COLS, DEFAULT_CONNECT)
    /\ last = [op |-> "init", err |-> "none"]
    /\ ret = NoRet
    /\ call = NoCall
    /\ search = NoSearch

StackSetup(col, player) ==
    /\ board.moves < MaxStackTokens
    /\ OneColumn(drop(board, col, player).board)
    /\ Setup(col, player)

StackHeuristic(profile, player) ==
    /\ StackCols(board, player) # {}
    /\ HeuristicSelect(profile, player)

StackMinimax(depth, player) ==
    /\ StackCols(board, player) # {}
    /\ MinimaxSelect(depth, player)

NextStack ==
    \/ \E col \in 0..(board.cols - 1), player \in {1, 2} :
           StackSetup(col, player)
    \/ \E profile \in DOMAIN Profiles, player \in {1, 2} :
           StackHeuristic(profile, player)
    \/ \E depth \in (1..MaxDepth) \cup {DefaultDepth}, player \in {1, 2} :
           StackMinimax(depth, player)

SpecStack == InitStack /\ [][NextStack]_vars

(* C12: on a 6-row by 7-column connect-4 board without a winner where the
   player to move has three vertically stacked tokens in one column with the
   cell above them open, select_move of the heuristic agent, of the minimax
   agent and of the MCTS agent returns that column. *)
C12_StackedColumn ==
    (/\ Returned
     /\ call.agent \in {"heuristic", "minimax", "mcts"}
     /\ StackCols(call.entry, call.player) # {}) =>
        /\ last.err = "none"
        /\ ret.val \in StackCols(call.entry, call.player)

\* MinimaxAgent() with its default depth was asked on a board that holds
\* nothing but the three stacked tokens, and raised
C12_MinimaxRaises ==
    /\ Returned
    /\ call.agent = "minimax"
    /\ call.depth = DefaultDepth
    /\ call.entry.moves = 3
    /\ StackCols(call.entry, call.player) # {}
    /\ last.err = "AttributeError"
    /\ ret = NoRet

----------------------------------------------------------------------------
(* Claims about the tiers of the heuristic select_move *)

\* the heuristic agent has returned from a board with a legal column
HeuristicReturned ==
    /\ Returned
    /\ call.agent = "heuristic"
    /\ LegalCols(call.entry) # <<>>

\* the composite score the returning agent gives to its drop in column c
ScoreOf(c) ==
    score_position(Profiles[call.profile],
                   drop(call.entry, c, call.player).board, c, call.player)

\* ret.val is in S, no column of S has a greater score, and no column of S
\* with the same score has a lower index
BestScoreIn(S) ==
    /\ last.err = "none"
    /\ ret.val \in S
    /\ \A c \in S : /\ ScoreOf(c) <= ScoreOf(ret.val)
                    /\ ScoreOf(c) = ScoreOf(ret.val) => c >= ret.val

\* twice the distance of column c from the midpoint (cols - 1) / 2
MidDistance2(b, c) == Abs(2 * c - (b.cols - 1))

(* C13: when at least one legal column is an immediate win for the acting
   player, the heuristic select_move returns the lowest-indexed such column,
   whether or not the opponent has an immediate win of their own. *)
C13_TierWin ==
    (HeuristicReturned /\ ImmediateWinCols(call.entry, call.player) # {}) =>
        /\ last.err = "none"
        /\ ret.val \in ImmediateWinCols(call.entry, call.player)
        /\ \A c \in ImmediateWinCols(call.entry, call.player) : c >= ret.val

\* on an undecided board the player had two winning columns or more and
\* the opponent a winning column that is none of them; the lowest of the
\* player's was returned
C13_Witness ==
    /\ HeuristicReturned
    /\ winner(call.entry) = 0
    /\ Cardinality(ImmediateWinCols(call.entry, call.player)) >= 2
    /\ ImmediateWinCols(call.entry, opp(call.player)) # {}
    /\ ImmediateWinCols(call.entry, opp(call.player))
           \cap ImmediateWinCols(call.entry, call.player) = {}
    /\ ret.val \in ImmediateWinCols(call.entry, call.player)

(* C14: when the acting player has no immediate win and the opponent has at
   least one, the heuristic select_move returns, among the opponent's
   immediate-win columns, the one whose drop by the acting player has the
   greatest composite score, the lowest index among equal scores. *)
C14_TierBlock ==
    (/\ HeuristicReturned
     /\ ImmediateWinCols(call.entry, call.player) = {}
     /\ ImmediateWinCols(call.entry, opp(call.player)) # {}) =>
        BestScoreIn(ImmediateWinCols(call.entry, opp(call.player)))

\* on an undecided board the opponent had two winning columns or more and
\* the column returned is one of them, but not the lowest: its score is
\* greater
C14_Witness ==
    /\ HeuristicReturned
    /\ winner(call.entry) = 0
    /\ ImmediateWinCols(call.entry, call.player) = {}
    /\ Cardinality(ImmediateWinCols(call.entry, opp(call.player))) >= 2
    /\ \E c \in ImmediateWinCols(call.entry, opp(call.player)) :
           c < ret.val /\ ScoreOf(c) < ScoreOf(ret.val)
    /\ ret.val \in ImmediateWinCols(call.entry, opp(call.player))

(* C15: when neither player has an immediate win and at least one legal
   column creates a double threat for the acting player, the heuristic
   select_move returns the double-threat column closest to the midpoint
   (cols - 1) / 2, the lower index among equally close ones. *)
C15_TierMyForks ==
    (/\ HeuristicReturned
     /\ ImmediateWinCols(call.entry, call.player) = {}
     /\ ImmediateWinCols(call.entry, opp(call.player)) = {}
     /\ DoubleThreatCols(call.entry, call.player) # {}) =>
        /\ last.err = "none"
        /\ ret.val \in DoubleThreatCols(call.entry, call.player)
        /\ \A c \in DoubleThreatCols(call.entry, call.player) :
              /\ MidDistance2(call.entry, c) >= MidDistance2(call.entry, ret.val)
              /\ MidDistance2(call.entry, c) = MidDistance2(call.entry, ret.val)
                    => c >= ret.val

\* two columns or more created a double threat, the lowest of them further
\* from the midpoint than the column returned
C15_Witness ==
    /\ HeuristicReturned
    /\ winner(call.entry) = 0
    /\ ImmediateWinCols(call.entry, call.player) = {}
    /\ ImmediateWinCols(call.entry, opp(call.player)) = {}
    /\ Cardinality(DoubleThreatCols(call.entry, call.player)) >= 2
    /\ \E c \in DoubleThreatCols(call.entry, call.player) : c < ret.val
    /\ ret.val \in DoubleThreatCols(call.entry, call.player)

(* C16: when neither player has an immediate win and no legal column
   creates a double threat for either player, the heuristic select_move
   returns the legal column whose drop has the greatest composite score, the
   lowest index among equal scores. *)
C16_TierBestScore ==
    (/\ HeuristicReturned
     /\ ImmediateWinCols(call.entry, call.player) = {}
     /\ ImmediateWinCols(call.entry, opp(call.player)) = {}
     /\ DoubleThreatCols(call.entry, call.player) = {}
     /\ DoubleThreatCols(call.entry, opp(call.player)) = {}) =>
        BestScoreIn({c \in 0..(board.cols - 1) : valid_moves(call.entry)[c]})

\* with tokens on the board and column 0 legal, a column right of it was
\* returned: its score is greater
C16_Witness ==
    /\ HeuristicReturned
    /\ call.entry.moves >= 2
    /\ ImmediateWinCols(call.entry, call.player) = {}
    /\ ImmediateWinCols(call.entry, opp(call.player)) = {}
    /\ DoubleThreatCols(call.entry, call.player) = {}
    /\ DoubleThreatCols(call.entry, opp(call.player)) = {}
    /\ valid_moves(call.entry)[0]
    /\ ret.val > 0
    /\ ScoreOf(0) < ScoreOf(ret.val)

----------------------------------------------------------------------------
(* The sub-scores of the evaluator as functions of the board: tokens are
   dropped on a board of MIN_RC rows, of connect length 3 or 4, and
   _center_bonus(b, col) or _detect_fork_patterns(b, pid) is called on it.
   The call leaves the board alone; its arguments are kept in call. *)

\* columns of the boards the sub-scores are called on
MaxEvalCols == 6

\* tokens on these boards
MaxEvalTokens == 3

InitEval ==
    /\ \E cols \in MIN_RC..MaxEvalCols :
         \E connect \in {MinConnect, DEFAULT_CONNECT} :
            /\ ValidConfig(MIN_RC, cols, connect)
            /\ board = NewBoard(MIN_RC, cols, connect)
    /\ last = [op |-> "init", err |-> "none"]
    /\ ret = NoRet
    /\ call = NoCall
    /\ search = NoSearch

\* a token is dropped before a sub-score is called
EvalPlace(col, player) ==
    /\ board.moves < MaxEvalTokens
    /\ Setup(col, player)

\* the arguments of a call of a sub-score
EvalCall(pid, col) ==
    [agent |-> "evaluator", player |-> pid, last_col |-> col, entry |-> board]

CenterBonus(col) ==
    /\ call.agent = "none"
    /\ ret' = [val |-> center_bonus(board, col)]
    /\ last' = [op |-> "_center_bonus", err |-> "none"]
    /\ call' = EvalCall(0, col)
    /\ UNCHANGED <<board, search>>

DetectForkPatterns(pid) ==
    /\ call.agent = "none"
    /\ ret' = [val |-> detect_fork_patterns(board, pid)]
    /\ last' = [op |-> "_detect_fork_patterns", err |-> "none"]
    /\ call' = EvalCall(pid, -1)
    /\ UNCHANGED <<board, search>>

NextEval ==
    \/ \E col \in 0..(board.cols - 1), player \in {1, 2} : EvalPlace(col, player)
    \/ \E col \in 0..(board.cols - 1) : CenterBonus(col)
    \/ \E pid \in {1, 2} : DetectForkPatterns(pid)

SpecEval == InitEval /\ [][NextEval]_vars

\* the cell (r, c) of b can take the next token of its column
Playable(b, r, c) == valid_moves(b)[c] /\ r = LowestEmptyRow(b, c)

\* from (r, c) along (dr, dc) lie connect cells of b: an empty cell, connect -
\* 2 tokens of p, an empty cell, and both empty cells are playable
OpenPatternAt(b, p, r, c, dr, dc) ==
    LET er == r + (b.connect - 1) * dr
        ec == c + (b.connect - 1) * dc
    IN  /\ er \in 0..(b.rows - 1)
        /\ ec \in 0..(b.cols - 1)
        /\ b.grid[r][c] = 0
        /\ b.grid[er][ec] = 0
        /\ \A i \in 1..(b.connect - 2) : b.grid[r + i * dr][c + i * dc] = p
        /\ Playable(b, r, c)
        /\ Playable(b, er, ec)

\* the horizontal and diagonal windows of b that hold an open pattern of p
OpenPatterns(b, p) ==
    {x \in Cells(b) \X {<<0, 1>>, <<1, 1>>, <<-1, 1>>} :
        OpenPatternAt(b, p, x[1][1], x[1][2], x[2][1], x[2][2])}

(* C17: for every connect length k the fork-pattern sub-score of a board for
   a player is the fixed bonus times the number of horizontal or diagonal
   windows of k cells of the form [Empty, k - 2 tokens of the player, Empty]
   with both empty ends playable, minus the fixed penalty times the number
   of such windows of the opponent; so it differs between a board with such
   a horizontal pattern and the same board with one end blocked. *)
C17_ForkPatternScore ==
    last.op = "_detect_fork_patterns" =>
        ret.val =
            bonus_my_fork * Cardinality(OpenPatterns(board, call.player))
            - penal_opp_fork
                * Cardinality(OpenPatterns(board, opp(call.player)))

\* on a connect-4 board the bottom row holds [Empty, two tokens of the
\* player, Empty] and nothing else is on the board: the sub-score is 0
C17_PatternMissed ==
    /\ last.op = "_detect_fork_patterns"
    /\ board.connect = DEFAULT_CONNECT
    /\ board.moves = 2
    /\ \E c \in 0..(board.cols - DEFAULT_CONNECT) :
          OpenPatternAt(board, call.player, board.rows - 1, c, 0, 1)
    /\ ret.val = 0

(* C18 as stated: the center-bias term equals the negative absolute distance
   of the column from the real-valued midpoint (cols - 1) / 2, for even
   column counts too (-1/2 for the two middle columns of a 6-column board).
   Both sides are doubled. *)
C18_Original ==
    last.op = "_center_bonus" =>
        2 * ret.val = -MidDistance2(board, call.last_col)

(* C18, amended: the center-bias term is the negative of the absolute
   distance of the column from the real-valued midpoint (cols - 1) / 2 with
   its fraction dropped: -ret.val is the greatest whole number that is not
   above the distance.  The term is exact for odd column counts; for even
   ones the columns at distance d + 1/2 get -d. *)
C18_CenterBonusTruncated ==
    last.op = "_center_bonus" =>
        /\ ret.val <= 0
        /\ 2 * (-ret.val) <= MidDistance2(board, call.last_col)
        /\ MidDistance2(board, call.last_col) < 2 * (-ret.val) + 2

\* on a 6-column board the term of a column next to the middle pair, at
\* distance 3/2 from the midpoint, is -1
C18_Witness ==
    /\ last.op = "_center_bonus"
    /\ board.cols = 6
    /\ call.last_col = 1
    /\ MidDistance2(board, call.last_col) = 3
    /\ ret.val = -1

----------------------------------------------------------------------------
(* The search of the minimax agent: tokens are dropped on the 3 x 3 board,
   then MinimaxAgent._minimax is called on it with a full window, or
   select_move is. *)

InitMinimax == InitAgents

\* the arguments of a call of _minimax
MinimaxCall(depth, maximizing, max_player, last_col) ==
    [agent |-> "_minimax", player |-> max_player, depth |-> depth,
     maximizing |-> maximizing, last_col |-> last_col, entry |-> board]

\* _minimax(board, depth, -INF, INF, maximizing, max_player, last_col)
Minimax(depth, maximizing, max_player, last_col) ==
    /\ call.agent = "none"
    /\ LET res == minimax(board, depth, -INF, INF, maximizing, max_player,
                          last_col)
       IN  /\ last' = [op |-> "_minimax", err |-> res.err]
           /\ ret' = IF res.err = "none" THEN [val |-> res.val] ELSE NoRet
    /\ call' = MinimaxCall(depth, maximizing, max_player, last_col)
    /\ UNCHANGED <<board, search>>

NextMinimax ==
    \/ \E col \in 0..(board.cols - 1), player \in {1, 2} : Setup(col, player)
    \/ \E depth \in 0..MaxDepth, maximizing \in BOOLEAN, max_player \in {1, 2} :
          \E last_col \in 0..(board.cols - 1) :
              Minimax(depth, maximizing, max_player, last_col)
    \/ \E depth \in 1..MaxDepth, player \in {1, 2} : MinimaxSelect(depth, player)

SpecMinimax == InitMinimax /\ [][NextMinimax]_vars

(* C19: when _minimax is called on a position without a winner with
   depth 0, or with no legal column, it returns the evaluator's composite
   score of the position for max_player with the given last_col: the call
   into the evaluator succeeds. *)
C19_LeafScore ==
    (/\ last.op = "_minimax"
     /\ winner(call.entry) = 0
     /\ (call.depth = 0 \/ LegalCols(call.entry) = <<>>)) =>
        /\ last.err = "none"
        /\ ret.val = score_position(Profiles.offensive, call.entry,
                                    call.last_col, call.player)

\* _minimax was called with depth 0 on a board without a winner that has
\* tokens and a legal column, and raised AttributeError
C19_EvaluatorRaises ==
    /\ last.op = "_minimax"
    /\ winner(call.entry) = 0
    /\ call.depth = 0
    /\ call.entry.moves >= 1
    /\ LegalCols(call.entry) # <<>>
    /\ last.err = "AttributeError"
    /\ ret = NoRet

\* the greatest (least) element of a non-empty sequence of numbers
MaxOf(vals) == CHOOSE v \in {vals[i] : i \in DOMAIN vals} :
                   \A i \in DOMAIN vals : vals[i] <= v

MinOf(vals) == CHOOSE v \in {vals[i] : i \in DOMAIN vals} :
                   \A i \in DOMAIN vals : vals[i] >= v

\* depth-limited minimax without pruning: a won position is worth INF // 2 +
\* depth or -INF // 2 - depth, a leaf the evaluator's composite score, any
\* other position the greatest (least) value of its children
RECURSIVE ExhaustiveValue(_, _, _, _, _)
ExhaustiveValue(node, depth, maximizing, max_player, last_col) ==
    IF winner(node) = max_player
    THEN (INF \div 2) + depth
    ELSE IF winner(node) = opp(max_player)
    THEN ((-INF) \div 2) - depth
    ELSE IF depth = 0 \/ LegalCols(node) = <<>>
    THEN score_position(Profiles.offensive, node, last_col, max_player)
    ELSE LET mover == IF maximizing THEN max_player ELSE opp(max_player)
             vals  == [i \in DOMAIN LegalCols(node) |->
                         ExhaustiveValue(
                             drop(node, LegalCols(node)[i], mover).board,
                             depth - 1, ~maximizing, max_player,
                             LegalCols(node)[i])]
         IN  IF maximizing THEN MaxOf(vals) ELSE MinOf(vals)

\* the values of the root's children, in center-first order
ExhaustiveRoot(depth, b, player) ==
    [i \in DOMAIN LegalCols(b) |->
        ExhaustiveValue(
            drop(b, ordered_moves(b, LegalCols(b))[i], player).board,
            depth - 1, FALSE, player, ordered_moves(b, LegalCols(b))[i])]

\* the first column in center-first order whose value is the greatest
ExhaustiveColumn(depth, b, player) ==
    LET vals == ExhaustiveRoot(depth, b, player)
        i == CHOOSE i \in DOMAIN vals :
                 /\ vals[i] = MaxOf(vals)
                 /\ \A j \in DOMAIN vals : vals[j] = MaxOf(vals) => i <= j
    IN  ordered_moves(b, LegalCols(b))[i]

(* C20: for every board with a legal column and every depth D >= 1,
   select_move of the minimax agent returns the column an exhaustive
   depth-D minimax without pruning returns over the same terminal and leaf
   scores, ties broken by the first column in center-first order. *)
C20_AlphaBetaExhaustive ==
    (/\ Returned
     /\ call.agent = "minimax"
     /\ LegalCols(call.entry) # <<>>) =>
        /\ last.err = "none"
        /\ ret.val = ExhaustiveColumn(call.depth, call.entry, call.player)

\* select_move with depth 2 was asked on a board without a winner and with
\* three legal columns, and raised AttributeError
C20_SearchRaises ==
    /\ Returned
    /\ call.agent = "minimax"
    /\ call.depth = 2
    /\ winner(call.entry) = 0
    /\ Len(LegalCols(call.entry)) = 3
    /\ last.err = "AttributeError"
    /\ ret = NoRet

----------------------------------------------------------------------------
(* Claims about the MCTS tree.  They are read between the iterations of a
   select_move call that has not raised: while it is searching, and when it
   has returned. *)

\* an MCTS call is between two iterations, or has returned
BetweenIterations == call.agent = "mcts" /\ last.err = "none"

\* the root position has no winner and an empty cell
RootOpen == winner(call.entry) = 0 /\ LegalCols(call.entry) # <<>>

\* the nodes of the tree, and the children of a node as a set of columns
Nodes == DOMAIN search.tree

ChildSet(p) ==
    {search.tree[p].children[i] : i \in DOMAIN search.tree[p].children}

\* the sum of N over the children of the node p
RECURSIVE SumN(_, _)
SumN(p, cols) ==
    IF cols = {}
    THEN 0
    ELSE LET c == CHOOSE x \in cols : TRUE
         IN  search.tree[Append(p, c)].N + SumN(p, cols \ {c})

(* C21: for a root position without a winner and with L legal columns,
   after L MCTS iterations or more, whatever the random choices, the root
   has a child for every legal column and every root child has N >= 1. *)
C21_RootChildrenVisited ==
    (/\ BetweenIterations
     /\ RootOpen
     /\ search.iters >= Len(LegalCols(call.entry))) =>
        /\ search.tree[<<>>].children = LegalCols(call.entry)
        /\ \A c \in ChildSet(<<>>) : search.tree[<<c>>].N >= 1

\* after exactly three iterations on a root with three legal columns each
\* root child has been visited once
C21_Witness ==
    /\ BetweenIterations
    /\ RootOpen
    /\ Len(LegalCols(call.entry)) = 3
    /\ search.iters = 3
    /\ \A c \in ChildSet(<<>>) : search.tree[<<c>>].N = 1

(* C22: when the root has children at the end of the budget, select_move
   returns the move of the root child with the greatest visit count N, not
   of the greatest W / N, and among the children of greatest N the one
   expanded first, which is the one of lowest column index. *)
C22_RobustChild ==
    (/\ Returned
     /\ BetweenIterations
     /\ search.tree[<<>>].children # <<>>) =>
        /\ ret.val \in ChildSet(<<>>)
        /\ \A c \in ChildSet(<<>>) :
              /\ search.tree[<<c>>].N <= search.tree[<<ret.val>>].N
              /\ search.tree[<<c>>].N = search.tree[<<ret.val>>].N
                    => c >= ret.val

\* the child returned has more visits than another visited child whose
\* W / N is greater
C22_Witness ==
    /\ Returned
    /\ BetweenIterations
    /\ \E c \in ChildSet(<<>>) :
          /\ search.tree[<<c>>].N < search.tree[<<ret.val>>].N
          /\ search.tree[<<c>>].N > 0
          /\ search.tree[<<c>>].W * search.tree[<<ret.val>>].N
                > search.tree[<<ret.val>>].W * search.tree[<<c>>].N

----------------------------------------------------------------------------
(* The MCTS call with every iteration on record.  The steps are those of the
   MCTS call above; an iteration also leaves in `last` what it did: the tree
   it started from (prev), the node _select ended on (leaf), the path handed
   to _backprop (path) and the outcome of the rollout (outcome). *)

\* the record of one self._iterate that went from the tree prev by sel to res
Traced(prev, sel, res) ==
    [op |-> IF res.err = "none" THEN "searching" ELSE "select_move",
     err |-> res.err, prev |-> prev, leaf |-> sel.path, path |-> res.path,
     outcome |-> res.outcome]

\* _iterate after _select has given sel on the boards h
IterateTraced(h, sel, center_bias) ==
    \E res \in IterateFrom(search.tree, call.rollout_max_len, center_bias, sel) :
        /\ board' = res.h[1]
        /\ search' = [search EXCEPT
                         !.heap = Tail(SubSeq(res.h, 1, Len(h))),
                         !.tree = res.tree,
                         !.iters = IF res.err = "none" THEN @ + 1 ELSE @]
        /\ last' = Traced(search.tree, sel, res)
        /\ ret' = NoRet

\* one self._iterate(root, root_state) on the boards h
IterateOn(h, center_bias) ==
    IterateTraced(h, select(search.tree, h, search.root_state), center_bias)

MctsIterateTraced ==
    /\ last.op = "searching"
    /\ search.iters < MaxSims
    /\ \E center_bias \in BOOLEAN : IterateOn(<<board>> \o search.heap, center_bias)
    /\ UNCHANGED call

NextMcts ==
    \/ \E col \in 0..(board.cols - 1), player \in {1, 2} : Setup(col, player)
    \/ \E player \in {1, 2}, rollout_max_len \in 0..MaxRolloutLen :
           MctsStart(player, rollout_max_len)
    \/ MctsIterateTraced
    \/ MctsReturn

SpecMcts == InitAgents /\ [][NextMcts]_vars

\* an iteration has just been completed
Iterated == call.agent = "mcts" /\ last.op = "searching" /\ search.iters > 0

\* the counts of the node p before the iteration; a node made by the
\* iteration starts from 0
PrevN(p) == IF p \in DOMAIN last.prev THEN last.prev[p].N ELSE 0

PrevW(p) == IF p \in DOMAIN last.prev THEN last.prev[p].W ELSE 0

\* the reward of the spec for a node whose to_play is tp
Reward(outcome, tp) ==
    IF outcome = 0 THEN 0 ELSE IF outcome = tp THEN -1 ELSE 1

\* C23: one backpropagation adds 1 to N on every node of the path, the
\* prefixes of the path handed to _backprop, and leaves N on every other
\* node; it adds to W of a path node +1 if the outcome of the rollout is the
\* opponent of the node's to_play, -1 if it is the node's to_play, 0 for a
\* draw, and leaves W on every other node.  The outcome is 0, 1 or 2
C23_Backprop ==
    Iterated =>
        /\ last.outcome \in {0, 1, 2}
        /\ last.path \in Nodes
        /\ \A p \in Nodes :
              IF IsPrefix(p, last.path)
              THEN /\ search.tree[p].N = PrevN(p) + 1
                   /\ search.tree[p].W
                        = PrevW(p) + Reward(last.outcome, search.tree[p].to_play)
              ELSE /\ search.tree[p].N = PrevN(p)
                   /\ search.tree[p].W = PrevW(p)

\* an iteration whose rollout was won by the player to move at the leaf: the
\* leaf loses 1 and its parent gains 1
C23_Witness ==
    /\ Iterated
    /\ Len(last.path) >= 2
    /\ last.outcome = search.tree[last.path].to_play
    /\ search.tree[last.path].W = PrevW(last.path) - 1
    /\ search.tree[Parent(last.path)].W = PrevW(Parent(last.path)) + 1
    /\ \E p \in Nodes : ~IsPrefix(p, last.path) /\ search.tree[p].N > 0

\* the position of the node p: the moves of the path are made from the board
\* of the call, each by the to_play of the node it leaves
RECURSIVE NodeBoard(_)
NodeBoard(p) ==
    IF p = <<>>
    THEN call.entry
    ELSE drop(NodeBoard(Parent(p)), p[Len(p)], search.tree[Parent(p)].to_play).board

\* the node states: no children and at most n visits; one child per legal
\* column, each to be played by the opponent; a decided or full position
\* without children
UnexpandedNode(p, n) ==
    search.tree[p].N <= n /\ search.tree[p].children = <<>>

ExpandedNode(p) ==
    /\ search.tree[p].children # <<>>
    /\ search.tree[p].children = LegalCols(NodeBoard(p))
    /\ ChildSet(p) = {c \in 0..(call.entry.cols - 1) : Append(p, c) \in Nodes}
    /\ \A c \in ChildSet(p) :
          search.tree[Append(p, c)].to_play = opp(search.tree[p].to_play)

TerminalNode(p) ==
    is_terminal(NodeBoard(p)) /\ search.tree[p].children = <<>>

\* C24 as stated: between iterations every node is unexpanded with N = 0, or
\* expanded, or terminal, so that every node with N >= 1 whose position is
\* not terminal has children
C24_Original ==
    BetweenIterations =>
        \A p \in Nodes :
            /\ UnexpandedNode(p, 0) \/ ExpandedNode(p) \/ TerminalNode(p)
            /\ (search.tree[p].N >= 1 /\ ~is_terminal(NodeBoard(p)))
                   => search.tree[p].children # <<>>

\* C24 (amended): between iterations every node is unexpanded with N <= 1
\* and no children, or expanded with exactly one child per legal column of
\* its position, each child's to_play being the opponent of the node's, or
\* terminal with no children; every node with N >= 2 whose position is not
\* terminal has children, and no node with N = 0 has any
C24_NodeStates ==
    BetweenIterations =>
        \A p \in Nodes :
            /\ UnexpandedNode(p, 1) \/ ExpandedNode(p) \/ TerminalNode(p)
            /\ (search.tree[p].N >= 2 /\ ~is_terminal(NodeBoard(p)))
                   => search.tree[p].children # <<>>
            /\ search.tree[p].N = 0 => search.tree[p].children = <<>>

\* a node below the root visited twice and expanded, one of its children
\* visited once and without children on a position that is not terminal
C24_Witness ==
    /\ BetweenIterations
    /\ \E p \in Nodes :
          /\ Len(p) = 2
          /\ search.tree[p].N = 1
          /\ search.tree[p].children = <<>>
          /\ ~is_terminal(NodeBoard(p))
          /\ search.tree[Parent(p)].N = 2
          /\ ExpandedNode(Parent(p))

\* C25: the assertion of _Node.uct_value never fails.  No MCTS call ends in
\* an AssertionError; between iterations every node below the root with
\* N > 0 has a parent with N > 0 and N at least the node's, and no node with
\* N = 0 has children; the node an iteration expanded (the node _select
\* ended on, when the path goes one node further) had no children before
C25_UctAssertion ==
    call.agent = "mcts" =>
        /\ last.err # "AssertionError"
        /\ last.err = "none" =>
              \A p \in Nodes :
                  /\ (p # <<>> /\ search.tree[p].N > 0) =>
                         /\ search.tree[Parent(p)].N > 0
                         /\ search.tree[Parent(p)].N >= search.tree[p].N
                  /\ search.tree[p].N = 0 => search.tree[p].children = <<>>
        /\ (Iterated /\ last.leaf # last.path) =>
              /\ last.path = Append(last.leaf, last.path[Len(last.path)])
              /\ last.prev[last.leaf].children = <<>>

\* an iteration whose selection took a child already visited, by its UCT
\* value, and expanded it
C25_Witness ==
    /\ Iterated
    /\ Len(last.leaf) >= 1
    /\ last.prev[last.leaf].N > 0
    /\ last.leaf # last.path
    /\ search.tree[last.leaf].children # <<>>

\* C26: after n completed iterations from a root that is not terminal,
\* root.N = n and root.N is the sum of its children's N; every node with
\* children has N equal to that sum or one more; every node has |W| <= N;
\* and no iteration ends in an error, which would leave the tree expanded
\* but not counted
C26_Counts ==
    call.agent = "mcts" =>
        /\ last.err \in {"none", "NoLegalMoves"}
        /\ (last.err = "NoLegalMoves") => (Returned /\ LegalCols(call.entry) = <<>>)
        /\ BetweenIterations =>
              /\ \A p \in Nodes :
                    /\ Abs(search.tree[p].W) <= search.tree[p].N
                    /\ search.tree[p].children # <<>> =>
                          search.tree[p].N - SumN(p, ChildSet(p)) \in {0, 1}
              /\ RootOpen =>
                    /\ search.tree[<<>>].N = search.iters
                    /\ search.tree[<<>>].N = SumN(<<>>, ChildSet(<<>>))

\* three iterations done; a node below the root has children and one visit
\* more than they have together, and a node visited twice has W = -N
C26_Witness ==
    /\ BetweenIterations
    /\ RootOpen
    /\ search.iters = 3
    /\ \E p \in Nodes :
          /\ p # <<>>
          /\ search.tree[p].children # <<>>
          /\ search.tree[p].N = SumN(p, ChildSet(p)) + 1
    /\ \E p \in Nodes : search.tree[p].N = 2 /\ search.tree[p].W = -2

----------------------------------------------------------------------------
(* The rollout and its policy, called on any board reached by drops:
   _policy_move(state, pid) returns a column; _rollout(state, to_play) plays
   on the board it is given, in place, and returns the outcome. *)

\* _rollout is called on the boards with at most MaxRolloutFree empty cells
MaxRolloutFree == 4

InitRollout == InitAgents

\* self._policy_move(state, pid), state being the board
PolicyMove(pid, center_bias) ==
    /\ call.agent = "none"
    /\ LET pm == policy_move(<<board>>, 1, pid, center_bias)
       IN  /\ board' = pm.h[1]
           /\ \E c \in pm.cols : ret' = [val |-> c]
           /\ last' = [op |-> "_policy_move", err |-> pm.err]
    /\ call' = [agent |-> "policy", player |-> pid, center_bias |-> center_bias,
                rollout_max_len |-> 0, entry |-> board]
    /\ UNCHANGED search

\* self._rollout(state, to_play), state being the board
Rollout(to_play, rollout_max_len, center_bias) ==
    /\ call.agent = "none"
    /\ FreeCells(board) <= MaxRolloutFree
    /\ \E res \in rollout(<<board>>, 1, to_play, 0, rollout_max_len, center_bias) :
           /\ board' = res.h[1]
           /\ ret' = [val |-> res.outcome]
           /\ last' = [op |-> "_rollout", err |-> res.err]
    /\ call' = [agent |-> "rollout", player |-> to_play,
                center_bias |-> center_bias,
                rollout_max_len |-> rollout_max_len, entry |-> board]
    /\ UNCHANGED search

NextRollout ==
    \/ \E col \in 0..(board.cols - 1), player \in {1, 2} : Setup(col, player)
    \/ \E pid \in {1, 2}, center_bias \in BOOLEAN : PolicyMove(pid, center_bias)
    \/ \E to_play \in {1, 2}, rollout_max_len \in 0..(MaxRolloutLen + 1),
          center_bias \in BOOLEAN :
           Rollout(to_play, rollout_max_len, center_bias)

SpecRollout == InitRollout /\ [][NextRollout]_vars

\* _policy_move was called on a rollout ply: no winner, an empty cell
PolicyPly ==
    /\ last.op = "_policy_move"
    /\ winner(call.entry) = 0
    /\ ~is_full(call.entry)

\* C27: on a rollout ply the policy raises nothing and returns a legal
\* column; a winning column if the mover has one; otherwise a column that
\* leaves the opponent no immediate win, if there is one; with the center
\* bias on or off, whatever the draw.  The board is left as it was
C27_PolicyMove ==
    PolicyPly =>
        /\ last.err = "none"
        /\ board = call.entry
        /\ ret.val \in 0..(board.cols - 1)
        /\ valid_moves(board)[ret.val]
        /\ ImmediateWinCols(board, call.player) # {} =>
              ret.val \in ImmediateWinCols(board, call.player)
        /\ (ImmediateWinCols(board, call.player) = {}
              /\ SafeCols(board, call.player) # {}) =>
              ret.val \in SafeCols(board, call.player)

\* the mover has no winning column; some legal columns are safe and some
\* give the opponent an immediate win; a safe one is returned, with the bias
C27_Witness ==
    /\ PolicyPly
    /\ call.center_bias
    /\ ImmediateWinCols(board, call.player) = {}
    /\ Cardinality(SafeCols(board, call.player)) >= 2
    /\ \E c \in 0..(board.cols - 1) :
          valid_moves(board)[c] /\ c \notin SafeCols(board, call.player)
    /\ ret.val \in SafeCols(board, call.player)

\* _rollout has returned
RolloutReturned == last.op = "_rollout" /\ last.err = "none"

\* the drops made by the rollout on the board it was given
RolloutDrops == board.moves - call.entry.moves

\* C28: a rollout returns p in {1, 2} exactly when the board it ends on has
\* winner p, and 0 exactly when that board has no winner, which is then full
\* or reached after rollout_max_len drops; without a cap the rollout ends
\* within rows * cols - moves drops, moves being counted at the call
C28_RolloutOutcome ==
    RolloutReturned =>
        /\ ret.val = winner(board)
        /\ ret.val = 0 =>
              \/ is_full(board)
              \/ /\ call.rollout_max_len # 0
                 /\ RolloutDrops = call.rollout_max_len
        /\ call.rollout_max_len = 0 =>
              RolloutDrops <= call.entry.rows * call.entry.cols - call.entry.moves

\* the drop that reaches the cap wins the game: 0 is returned on a board
\* that has a winner
C28_CapHidesWin ==
    /\ RolloutReturned
    /\ call.rollout_max_len # 0
    /\ RolloutDrops = call.rollout_max_len
    /\ winner(call.entry) = 0
    /\ winner(board) # 0
    /\ ret.val = 0

----------------------------------------------------------------------------
(* GameController (src/game_controller.py).  The controller's board is the
   variable board; its other fields, turn and winner_cache, are kept in
   `search`.  play(col) is called with any column, legal or not, until it
   gives a terminal result; `call` keeps the column and the fields as they
   were at entry. *)

\* the boards have MIN_RC rows and MIN_RC..MaxGameCols columns
MaxGameCols == 4

\* GameController.__init__: turn and winner_cache
NewController == [turn |-> 1, winner_cache |-> 0]

\* the value of play: the status string, its kind and the player it names;
\* the kind "none" stands for no value, before the first play and when play
\* raises
Status(kind, player) == [kind |-> kind, player |-> player]

\* GameController.is_terminal on the board b: its value and winner_cache
controller_is_terminal(b, winner_cache, w) ==
    IF w # 0
    THEN [val |-> TRUE, winner_cache |-> w]
    ELSE [val |-> is_full(b), winner_cache |-> winner_cache]

\* play after is_terminal has given t
PlayTerminal(b, turn, t) ==
    IF t.val
    THEN [board |-> b, turn |-> turn, winner_cache |-> t.winner_cache,
          err |-> "none",
          status |-> IF t.winner_cache # 0
                     THEN Status("Winner", t.winner_cache)
                     ELSE Status("Draw", 0)]
    ELSE [board |-> b, turn |-> IF turn = 1 THEN 2 ELSE 1,
          winner_cache |-> t.winner_cache, err |-> "none",
          status |-> Status("Next", IF turn = 1 THEN 2 ELSE 1)]

\* mutant: the turn is passed on after a terminal move too
PlayDroppedFlip(b, turn, winner_cache, d) ==
    IF d.err # "none"
    THEN [board |-> d.board, turn |-> turn, winner_cache |-> winner_cache,
          err |-> d.err, status |-> Status("none", 0)]
    ELSE [PlayTerminal(d.board, turn,
              controller_is_terminal(d.board, winner_cache, winner(d.board)))
          EXCEPT !.turn = IF turn = 1 THEN 2 ELSE 1]

\* play after self.board.drop(col, self.turn) has given d: an error of drop
\* goes to the caller
PlayDropped(b, turn, winner_cache, d) ==
    IF d.err # "none"
    THEN [board |-> d.board, turn |-> turn, winner_cache |-> winner_cache,
          err |-> d.err, status |-> Status("none", 0)]
    ELSE CHOOSE res \in
             {PlayTerminal(d.board, turn, t) :
                 t \in {controller_is_terminal(d.board, winner_cache, w) :
                           w \in {winner(d.board)}}} : TRUE

\* GameController.play.  The board after the drop, the winner and the value
\* of is_terminal are values computed once, as in the source
play(b, turn, winner_cache, col) ==
    CHOOSE res \in {PlayDropped(b, turn, winner_cache, d) :
                       d \in {drop(b, col, turn)}} : TRUE

InitGame ==
    /\ \E cols \in MIN_RC..MaxGameCols, connect \in {MinConnect, DEFAULT_CONNECT} :
            /\ ValidConfig(MIN_RC, cols, connect)
            /\ board = NewBoard(MIN_RC, cols, connect)
    /\ last = [op |-> "init", err |-> "none"]
    /\ ret = [val |-> Status("none", 0)]
    /\ call = NoCall
    /\ search = NewController

\* no terminal result has been given
GameOn == ret.val.kind \in {"none", "Next"}

\* the controller after play has given res
Played(res) ==
    /\ board' = res.board
    /\ search' = [turn |-> res.turn, winner_cache |-> res.winner_cache]
    /\ last' = [op |-> "play", err |-> res.err]
    /\ ret' = IF res.err = "none" THEN [val |-> res.status] ELSE ret

Play(col) ==
    /\ GameOn
    /\ Played(play(board, search.turn, search.winner_cache, col))
    /\ call' = [agent |-> "controller", player |-> search.turn, col |-> col,
                winner_cache |-> search.winner_cache, entry |-> board]

\* GameController.reset
ControllerReset ==
    /\ board' = reset(board)
    /\ search' = NewController
    /\ last' = [op |-> "reset", err |-> "none"]
    /\ ret' = [val |-> Status("none", 0)]
    /\ call' = NoCall

NextGame ==
    \/ \E col \in ColArgs(board) : Play(col)
    \/ ControllerReset

SpecGame == InitGame /\ [][NextGame]_vars

\* the number of tokens of player p on the board b
Tokens(b, p) == Cardinality({rc \in Cells(b) : b.grid[rc[1]][rc[2]] = p})

\* the board b is the board a with one token of p more, in the lowest empty
\* cell of column c
OneMore(a, b, c, p) ==
    /\ a.grid[0][c] = 0
    /\ b.grid[LowestEmptyRow(a, c)][c] = p
    /\ \A rc \in Cells(a) :
          rc # <<LowestEmptyRow(a, c), c>> => b.grid[rc[1]][rc[2]] = a.grid[rc[1]][rc[2]]
    /\ b.moves = a.moves + 1

\* C29: from the empty board with turn 1, up to the first terminal result:
\* a play that succeeds has dropped one token of the player whose turn it
\* was, passes the turn iff its result is "Next" (naming the new turn),
\* gives "Winner" iff the board has a winner, whom it names and leaves in
\* winner_cache, and "Draw" iff the board is full without winner; a play
\* whose drop raises leaves board, turn and winner_cache as they were.  The
\* tokens of player 1 are as many as those of player 2 or one more, and
\* while no terminal result was given turn = 1 iff they are as many
C29_Play ==
    /\ last.op = "play" =>
          IF last.err = "none"
          THEN /\ call.col \in 0..(board.cols - 1)
               /\ OneMore(call.entry, board, call.col, call.player)
               /\ (ret.val.kind = "Next") <=> (search.turn # call.player)
               /\ ret.val.kind = "Next" => ret.val.player = search.turn
               /\ (ret.val.kind = "Winner") <=> (winner(board) # 0)
               /\ ret.val.kind = "Winner" =>
                     /\ search.winner_cache = winner(board)
                     /\ ret.val.player = winner(board)
               /\ (ret.val.kind = "Draw") <=> (winner(board) = 0 /\ is_full(board))
               /\ ret.val.kind # "Winner" => search.winner_cache = call.winner_cache
          ELSE /\ board = call.entry
               /\ search.turn = call.player
               /\ search.winner_cache = call.winner_cache
    /\ search.turn \in {1, 2}
    /\ Tokens(board, 1) - Tokens(board, 2) \in {0, 1}
    /\ GameOn => ((search.turn = 1) <=> (Tokens(board, 1) = Tokens(board, 2)))

\* player 1 makes the last move, which wins: "Winner" names 1, the turn
\* stays with 1 and player 1 has one token more
C29_Witness ==
    /\ last.op = "play"
    /\ last.err = "none"
    /\ ret.val = Status("Winner", 1)
    /\ search.turn = 1
    /\ search.winner_cache = 1
    /\ Tokens(board, 1) = Tokens(board, 2) + 1

----------------------------------------------------------------------------
(* MatchRunner (src/match_runner.py).  run() is a loop; one pass asks the
   agent of the player to move for a column, plays it on the controller and
   appends the move to history; any exception raised in the pass is caught
   and the loop goes on.  The runner's controller is kept as above, history
   beside turn and winner_cache in `search`, with the parity of the number
   of passes made;
   `call` names the two agents.
   An agent is one of three kinds: "legal" returns a legal column, any of
   them; "raises" has a select_move that raises at every call; "column0"
   returns column 0 at every call, legal or not. *)

AgentKinds == {"legal", "raises", "column0"}

\* agent.select_move(board, player_id): the outcomes it can have
AgentMoves(kind, b) ==
    IF kind = "raises"
    THEN {[col |-> -1, err |-> "Exception"]}
    ELSE IF kind = "column0"
         THEN {[col |-> 0, err |-> "none"]}
         ELSE {[col |-> c, err |-> "none"] :
                  c \in {x \in 0..(b.cols - 1) : valid_moves(b)[x]}}

\* MatchRunner.__init__ with the agents kind1 and kind2 on an empty board,
\* the smallest there is
InitMatch ==
    /\ board = NewBoard(MIN_RC, MIN_RC, MinConnect)
    /\ last = [op |-> "init", err |-> "none"]
    /\ ret = NoRet
    /\ \E kind1 \in AgentKinds, kind2 \in AgentKinds :
           call = [agent |-> "match", agents |-> <<kind1, kind2>>]
    /\ search = [turn |-> 1, winner_cache |-> 0, history |-> <<>>, passes |-> 0]

\* `except Exception`: the pass ends, nothing is returned, the loop goes on
Caught(err) ==
    /\ last' = [op |-> "run", err |-> err]
    /\ search' = [search EXCEPT !.passes = (@ + 1) % 2]
    /\ UNCHANGED <<board, ret>>

\* the end of a pass in which play has given res for the column col
PassPlayed(player_id, col, res) ==
    IF res.err # "none"
    THEN Caught(res.err)
    ELSE /\ board' = res.board
         /\ search' = [turn |-> res.turn, winner_cache |-> res.winner_cache,
                       history |-> Append(search.history, <<player_id, col>>),
                       passes |-> (search.passes + 1) % 2]
         /\ last' = [op |-> "run", err |-> "none"]
         /\ ret' = IF res.status.kind = "Winner"
                   THEN [val |-> res.winner_cache]
                   ELSE IF res.status.kind = "Draw" THEN [val |-> 0] ELSE NoRet

\* the pass after select_move has given m
PassMove(player_id, m) ==
    IF m.err # "none"
    THEN Caught(m.err)
    ELSE \E res \in {play(board, search.turn, search.winner_cache, m.col)} :
             PassPlayed(player_id, m.col, res)

\* run() has not returned: the loop makes another pass
PassEnabled == ret = NoRet

\* one pass of the loop of run()
RunPass ==
    /\ PassEnabled
    /\ \E m \in AgentMoves(call.agents[search.turn], board) :
           PassMove(search.turn, m)
    /\ UNCHANGED call

NextMatch == RunPass

\* the loop of run() goes from one pass to the next without waiting for
\* anything, so a pass that can be made is made
SpecMatch == InitMatch /\ [][NextMatch]_vars /\ WF_vars(RunPass)

\* the board after the moves of history hist from index i on, made on b
RECURSIVE Replay(_, _, _)
Replay(b, hist, i) ==
    IF i > Len(hist)
    THEN b
    ELSE Replay(drop(b, hist[i][2], hist[i][1]).board, hist, i + 1)

\* history holds the moves applied, by the players in turn, at most
\* rows * cols of them; what run() has returned is the winner of the board,
\* or 0 on a full board without winner; and run() returns with the first
\* terminal board
MatchSafe ==
    /\ Len(search.history) = board.moves
    /\ board.moves <= board.rows * board.cols
    /\ search.passes \in {0, 1}
    /\ \A i \in DOMAIN search.history :
          search.history[i][1] = (IF i % 2 = 1 THEN 1 ELSE 2)
    /\ board = Replay(reset(board), search.history, 1)
    /\ ret # NoRet =>
          /\ ret.val = winner(board)
          /\ ret.val = 0 => is_full(board)
    /\ (ret = NoRet /\ last.err = "none") => (winner(board) = 0 /\ ~is_full(board))

\* C30: run() on an empty board terminates, after at most rows * cols moves
\* applied, returning the winner of the board or 0 when it is full without
\* winner, history holding the moves applied in alternating player order;
\* for every pair of agents, an agent whose select_move raises or returns an
\* illegal column included: run() ends then too
C30_RunTerminates == []MatchSafe /\ <>(ret # NoRet)

\* the agent of player 1 returns column 0, which is full; the exception of
\* drop was caught and run() has not returned
C30_Retrying ==
    /\ last.op = "run"
    /\ last.err = "ColumnFull"
    /\ ret = NoRet
    /\ call.agents[search.turn] = "column0"
    /\ Len(search.history) >= MIN_RC

====
